---- MODULE Spec2Model ----
(***************************************************************************)
(* Connection state reconciliation of ovpn-manager: the per-connection     *)
(* state machine (utils/connection_fsm.c), the session status classifier  *)
(* and the authentication probe (dbus/session_client.c) and the tray's     *)
(* reconciliation tick (tray.c).                                           *)
(***************************************************************************)
EXTENDS Integers, Sequences, FiniteSets, TLC

VARIABLES
    timer_calls,  \* the bus calls made by the last call of tray_icon_update_timers
    bw_hist,  \* the samples add_sample stored: the first since the monitor was created, those since it was created or last reset, and how many in all
    bw_out,  \* <<>> before the first call on the monitor, then the outcome of the last call
    monitor,  \* the BandwidthMonitor under check (<<>>: none created)
    cmd_out,  \* <<>> before the first menu command, then the last command handler run: its command, what the bus call returned, whether logger_error was called, and a bit flipped by every handler run
    cleanup_out,  \* <<>> before the call of session_cleanup_all, then its outcome
    cleanup_env,  \* the bus as it answers session_cleanup_all under check
    fsm,          \* ConnectionFsm instance: [exists, current_state]
    fsm_hist,     \* the last HistLen calls of connection_fsm_process_event
    fsm_buttons,  \* the last value returned by connection_fsm_get_button_states
    probe_env,    \* the bus as it answers the probe under check
    probe_out,    \* <<>> before the call of session_get_auth_url, then its outcome
    cls_env,      \* the properties and probe answers of the session under check
    cls_out,      \* <<>> before the call of session_get_info, then its outcome
    connection_menu_items,  \* config_path -> ConnectionMenuItem
    auth_launched,          \* the session paths launch_auth_browser was run for
    session_timings,        \* session_path -> start time
    tray_running,           \* FALSE once a call of the tick did not return
    auth_streak,  \* per session path: the ticks in a row that observed it
                  \* AuthRequired and the browsers opened for it in those ticks
    last_fetch,   \* "none" before the first tick, then "ok" or the fetch
                  \* (config_list, session_list) that failed on the last tick
    fetch_env,    \* the bus as it answers the list fetch under check
    fetch_out,    \* <<>> before the call of config_list or session_list, then
                  \* its outcome
    merge_env,    \* the lists merge_connections_data last fetched
    merge_out,    \* <<>> before the first call of merge_connections_data, then
                  \* the array it last returned (in SpecItems followed by the
                  \* array of the tick before)
    first_created,  \* session_path -> the creation timestamp it was first
                    \* observed with
    start_env,    \* the bus as it answers session_start under check
    start_out,    \* <<>> before the call of session_start, then its outcome
    auth_reentry  \* per session path: "left" once it was observed out of
                  \* AuthRequired after the browser was opened for it, then
                  \* "skipped" when it is observed AuthRequired again on a tick
                  \* that does not call launch_auth_browser for it

fsm_vars == <<fsm, fsm_hist, fsm_buttons>>

probe_vars == <<probe_env, probe_out>>

cls_vars == <<cls_env, cls_out>>

tray_vars ==
    <<connection_menu_items, auth_launched, session_timings, tray_running, auth_streak,
      auth_reentry, last_fetch>>

fetch_vars == <<fetch_env, fetch_out>>

merge_vars == <<merge_env, merge_out, first_created>>

start_vars == <<start_env, start_out>>

cleanup_vars == <<cleanup_env, cleanup_out>>

cmd_vars == <<cmd_out>>

bw_vars == <<bw_hist, bw_out, monitor>>

timer_vars == <<timer_calls>>

service_vars == <<cleanup_vars, cmd_vars, bw_vars, timer_vars>>

client_vars == <<fetch_vars, merge_vars, start_vars>>

vars == <<fsm_vars, probe_vars, cls_vars, tray_vars, client_vars, service_vars>>

(***************************************************************************)
(* utils/connection_fsm.h: the enums.                                      *)
(***************************************************************************)
CONN_STATE_DISCONNECTED == 0
CONN_STATE_CONNECTING == 1
CONN_STATE_CONNECTED == 2
CONN_STATE_PAUSED == 3
CONN_STATE_AUTH_REQUIRED == 4
CONN_STATE_ERROR == 5
CONN_STATE_RECONNECTING == 6

ConnectionState == CONN_STATE_DISCONNECTED .. CONN_STATE_RECONNECTING

FSM_EVENT_CONNECT_REQUESTED == 0
FSM_EVENT_SESSION_CONNECTING == 1
FSM_EVENT_SESSION_CONNECTED == 2
FSM_EVENT_SESSION_PAUSED == 3
FSM_EVENT_SESSION_RESUMED == 4
FSM_EVENT_SESSION_AUTH_REQUIRED == 5
FSM_EVENT_SESSION_ERROR == 6
FSM_EVENT_SESSION_DISCONNECTED == 7
FSM_EVENT_DISCONNECT_REQUESTED == 8
FSM_EVENT_SESSION_RECONNECTING == 9

ConnectionFsmEvent == FSM_EVENT_CONNECT_REQUESTED .. FSM_EVENT_SESSION_RECONNECTING

\* ConnectionButtonStates
ButtonStates(c, d, p, r, a) ==
    [connect_enabled |-> c, disconnect_enabled |-> d, pause_enabled |-> p,
     resume_enabled |-> r, auth_enabled |-> a]

(***************************************************************************)
(* utils/connection_fsm.c: the transition table, in source order.          *)
(***************************************************************************)
StateTransition(f, e, t) == [from_state |-> f, event |-> e, to_state |-> t]

\* The table with the poll no-op rows (the /* self */ rows) left out.
transition_table_no_self ==
    << StateTransition(CONN_STATE_DISCONNECTED, FSM_EVENT_CONNECT_REQUESTED, CONN_STATE_CONNECTING),
       StateTransition(CONN_STATE_DISCONNECTED, FSM_EVENT_SESSION_CONNECTING, CONN_STATE_CONNECTING),
       StateTransition(CONN_STATE_DISCONNECTED, FSM_EVENT_SESSION_CONNECTED, CONN_STATE_CONNECTED),
       StateTransition(CONN_STATE_DISCONNECTED, FSM_EVENT_SESSION_AUTH_REQUIRED, CONN_STATE_AUTH_REQUIRED),
       StateTransition(CONN_STATE_DISCONNECTED, FSM_EVENT_SESSION_PAUSED, CONN_STATE_PAUSED),
       StateTransition(CONN_STATE_DISCONNECTED, FSM_EVENT_SESSION_ERROR, CONN_STATE_ERROR),
       StateTransition(CONN_STATE_CONNECTING, FSM_EVENT_SESSION_CONNECTED, CONN_STATE_CONNECTED),
       StateTransition(CONN_STATE_CONNECTING, FSM_EVENT_SESSION_AUTH_REQUIRED, CONN_STATE_AUTH_REQUIRED),
       StateTransition(CONN_STATE_CONNECTING, FSM_EVENT_SESSION_ERROR, CONN_STATE_ERROR),
       StateTransition(CONN_STATE_CONNECTING, FSM_EVENT_SESSION_DISCONNECTED, CONN_STATE_DISCONNECTED),
       StateTransition(CONN_STATE_CONNECTING, FSM_EVENT_DISCONNECT_REQUESTED, CONN_STATE_DISCONNECTED),
       StateTransition(CONN_STATE_CONNECTED, FSM_EVENT_SESSION_PAUSED, CONN_STATE_PAUSED),
       StateTransition(CONN_STATE_CONNECTED, FSM_EVENT_SESSION_RECONNECTING, CONN_STATE_RECONNECTING),
       StateTransition(CONN_STATE_CONNECTED, FSM_EVENT_SESSION_DISCONNECTED, CONN_STATE_DISCONNECTED),
       StateTransition(CONN_STATE_CONNECTED, FSM_EVENT_DISCONNECT_REQUESTED, CONN_STATE_DISCONNECTED),
       StateTransition(CONN_STATE_CONNECTED, FSM_EVENT_SESSION_ERROR, CONN_STATE_ERROR),
       StateTransition(CONN_STATE_PAUSED, FSM_EVENT_SESSION_RESUMED, CONN_STATE_CONNECTED),
       StateTransition(CONN_STATE_PAUSED, FSM_EVENT_SESSION_CONNECTED, CONN_STATE_CONNECTED),
       StateTransition(CONN_STATE_PAUSED, FSM_EVENT_SESSION_DISCONNECTED, CONN_STATE_DISCONNECTED),
       StateTransition(CONN_STATE_PAUSED, FSM_EVENT_DISCONNECT_REQUESTED, CONN_STATE_DISCONNECTED),
       StateTransition(CONN_STATE_PAUSED, FSM_EVENT_SESSION_ERROR, CONN_STATE_ERROR),
       StateTransition(CONN_STATE_AUTH_REQUIRED, FSM_EVENT_SESSION_CONNECTED, CONN_STATE_CONNECTED),
       StateTransition(CONN_STATE_AUTH_REQUIRED, FSM_EVENT_SESSION_CONNECTING, CONN_STATE_CONNECTING),
       StateTransition(CONN_STATE_AUTH_REQUIRED, FSM_EVENT_SESSION_DISCONNECTED, CONN_STATE_DISCONNECTED),
       StateTransition(CONN_STATE_AUTH_REQUIRED, FSM_EVENT_DISCONNECT_REQUESTED, CONN_STATE_DISCONNECTED),
       StateTransition(CONN_STATE_AUTH_REQUIRED, FSM_EVENT_SESSION_ERROR, CONN_STATE_ERROR),
       StateTransition(CONN_STATE_ERROR, FSM_EVENT_SESSION_DISCONNECTED, CONN_STATE_DISCONNECTED),
       StateTransition(CONN_STATE_ERROR, FSM_EVENT_DISCONNECT_REQUESTED, CONN_STATE_DISCONNECTED),
       StateTransition(CONN_STATE_ERROR, FSM_EVENT_CONNECT_REQUESTED, CONN_STATE_CONNECTING),
       StateTransition(CONN_STATE_ERROR, FSM_EVENT_SESSION_CONNECTING, CONN_STATE_CONNECTING),
       StateTransition(CONN_STATE_ERROR, FSM_EVENT_SESSION_CONNECTED, CONN_STATE_CONNECTED),
       StateTransition(CONN_STATE_RECONNECTING, FSM_EVENT_SESSION_CONNECTED, CONN_STATE_CONNECTED),
       StateTransition(CONN_STATE_RECONNECTING, FSM_EVENT_SESSION_AUTH_REQUIRED, CONN_STATE_AUTH_REQUIRED),
       StateTransition(CONN_STATE_RECONNECTING, FSM_EVENT_SESSION_DISCONNECTED, CONN_STATE_DISCONNECTED),
       StateTransition(CONN_STATE_RECONNECTING, FSM_EVENT_DISCONNECT_REQUESTED, CONN_STATE_DISCONNECTED),
       StateTransition(CONN_STATE_RECONNECTING, FSM_EVENT_SESSION_ERROR, CONN_STATE_ERROR) >>

\* The table with one more row, Connected + SESSION_RESUMED -> Paused: a
\* resume event that toggles between Paused and Connected.
transition_table_toggle ==
    << StateTransition(CONN_STATE_PAUSED, FSM_EVENT_SESSION_RESUMED, CONN_STATE_CONNECTED),
       StateTransition(CONN_STATE_CONNECTED, FSM_EVENT_SESSION_RESUMED, CONN_STATE_PAUSED) >>
    \o transition_table_no_self
    \o << StateTransition(CONN_STATE_DISCONNECTED, FSM_EVENT_SESSION_DISCONNECTED, CONN_STATE_DISCONNECTED),
          StateTransition(CONN_STATE_CONNECTING, FSM_EVENT_SESSION_CONNECTING, CONN_STATE_CONNECTING),
          StateTransition(CONN_STATE_CONNECTED, FSM_EVENT_SESSION_CONNECTED, CONN_STATE_CONNECTED),
          StateTransition(CONN_STATE_PAUSED, FSM_EVENT_SESSION_PAUSED, CONN_STATE_PAUSED),
          StateTransition(CONN_STATE_AUTH_REQUIRED, FSM_EVENT_SESSION_AUTH_REQUIRED, CONN_STATE_AUTH_REQUIRED),
          StateTransition(CONN_STATE_ERROR, FSM_EVENT_SESSION_ERROR, CONN_STATE_ERROR),
          StateTransition(CONN_STATE_RECONNECTING, FSM_EVENT_SESSION_RECONNECTING, CONN_STATE_RECONNECTING) >>

transition_table ==
    << \* From DISCONNECTED
       StateTransition(CONN_STATE_DISCONNECTED, FSM_EVENT_CONNECT_REQUESTED, CONN_STATE_CONNECTING),
       StateTransition(CONN_STATE_DISCONNECTED, FSM_EVENT_SESSION_CONNECTING, CONN_STATE_CONNECTING),
       StateTransition(CONN_STATE_DISCONNECTED, FSM_EVENT_SESSION_DISCONNECTED, CONN_STATE_DISCONNECTED),
       StateTransition(CONN_STATE_DISCONNECTED, FSM_EVENT_SESSION_CONNECTED, CONN_STATE_CONNECTED),
       StateTransition(CONN_STATE_DISCONNECTED, FSM_EVENT_SESSION_AUTH_REQUIRED, CONN_STATE_AUTH_REQUIRED),
       StateTransition(CONN_STATE_DISCONNECTED, FSM_EVENT_SESSION_PAUSED, CONN_STATE_PAUSED),
       StateTransition(CONN_STATE_DISCONNECTED, FSM_EVENT_SESSION_ERROR, CONN_STATE_ERROR),
       \* From CONNECTING
       StateTransition(CONN_STATE_CONNECTING, FSM_EVENT_SESSION_CONNECTED, CONN_STATE_CONNECTED),
       StateTransition(CONN_STATE_CONNECTING, FSM_EVENT_SESSION_AUTH_REQUIRED, CONN_STATE_AUTH_REQUIRED),
       StateTransition(CONN_STATE_CONNECTING, FSM_EVENT_SESSION_ERROR, CONN_STATE_ERROR),
       StateTransition(CONN_STATE_CONNECTING, FSM_EVENT_SESSION_DISCONNECTED, CONN_STATE_DISCONNECTED),
       StateTransition(CONN_STATE_CONNECTING, FSM_EVENT_DISCONNECT_REQUESTED, CONN_STATE_DISCONNECTED),
       StateTransition(CONN_STATE_CONNECTING, FSM_EVENT_SESSION_CONNECTING, CONN_STATE_CONNECTING),
       \* From CONNECTED
       StateTransition(CONN_STATE_CONNECTED, FSM_EVENT_SESSION_PAUSED, CONN_STATE_PAUSED),
       StateTransition(CONN_STATE_CONNECTED, FSM_EVENT_SESSION_RECONNECTING, CONN_STATE_RECONNECTING),
       StateTransition(CONN_STATE_CONNECTED, FSM_EVENT_SESSION_DISCONNECTED, CONN_STATE_DISCONNECTED),
       StateTransition(CONN_STATE_CONNECTED, FSM_EVENT_DISCONNECT_REQUESTED, CONN_STATE_DISCONNECTED),
       StateTransition(CONN_STATE_CONNECTED, FSM_EVENT_SESSION_ERROR, CONN_STATE_ERROR),
       StateTransition(CONN_STATE_CONNECTED, FSM_EVENT_SESSION_CONNECTED, CONN_STATE_CONNECTED),
       \* From PAUSED
       StateTransition(CONN_STATE_PAUSED, FSM_EVENT_SESSION_RESUMED, CONN_STATE_CONNECTED),
       StateTransition(CONN_STATE_PAUSED, FSM_EVENT_SESSION_CONNECTED, CONN_STATE_CONNECTED),
       StateTransition(CONN_STATE_PAUSED, FSM_EVENT_SESSION_DISCONNECTED, CONN_STATE_DISCONNECTED),
       StateTransition(CONN_STATE_PAUSED, FSM_EVENT_DISCONNECT_REQUESTED, CONN_STATE_DISCONNECTED),
       StateTransition(CONN_STATE_PAUSED, FSM_EVENT_SESSION_ERROR, CONN_STATE_ERROR),
       StateTransition(CONN_STATE_PAUSED, FSM_EVENT_SESSION_PAUSED, CONN_STATE_PAUSED),
       \* From AUTH_REQUIRED
       StateTransition(CONN_STATE_AUTH_REQUIRED, FSM_EVENT_SESSION_CONNECTED, CONN_STATE_CONNECTED),
       StateTransition(CONN_STATE_AUTH_REQUIRED, FSM_EVENT_SESSION_CONNECTING, CONN_STATE_CONNECTING),
       StateTransition(CONN_STATE_AUTH_REQUIRED, FSM_EVENT_SESSION_DISCONNECTED, CONN_STATE_DISCONNECTED),
       StateTransition(CONN_STATE_AUTH_REQUIRED, FSM_EVENT_DISCONNECT_REQUESTED, CONN_STATE_DISCONNECTED),
       StateTransition(CONN_STATE_AUTH_REQUIRED, FSM_EVENT_SESSION_ERROR, CONN_STATE_ERROR),
       StateTransition(CONN_STATE_AUTH_REQUIRED, FSM_EVENT_SESSION_AUTH_REQUIRED, CONN_STATE_AUTH_REQUIRED),
       \* From ERROR
       StateTransition(CONN_STATE_ERROR, FSM_EVENT_SESSION_DISCONNECTED, CONN_STATE_DISCONNECTED),
       StateTransition(CONN_STATE_ERROR, FSM_EVENT_DISCONNECT_REQUESTED, CONN_STATE_DISCONNECTED),
       StateTransition(CONN_STATE_ERROR, FSM_EVENT_CONNECT_REQUESTED, CONN_STATE_CONNECTING),
       StateTransition(CONN_STATE_ERROR, FSM_EVENT_SESSION_CONNECTING, CONN_STATE_CONNECTING),
       StateTransition(CONN_STATE_ERROR, FSM_EVENT_SESSION_CONNECTED, CONN_STATE_CONNECTED),
       StateTransition(CONN_STATE_ERROR, FSM_EVENT_SESSION_ERROR, CONN_STATE_ERROR),
       \* From RECONNECTING
       StateTransition(CONN_STATE_RECONNECTING, FSM_EVENT_SESSION_CONNECTED, CONN_STATE_CONNECTED),
       StateTransition(CONN_STATE_RECONNECTING, FSM_EVENT_SESSION_AUTH_REQUIRED, CONN_STATE_AUTH_REQUIRED),
       StateTransition(CONN_STATE_RECONNECTING, FSM_EVENT_SESSION_DISCONNECTED, CONN_STATE_DISCONNECTED),
       StateTransition(CONN_STATE_RECONNECTING, FSM_EVENT_DISCONNECT_REQUESTED, CONN_STATE_DISCONNECTED),
       StateTransition(CONN_STATE_RECONNECTING, FSM_EVENT_SESSION_ERROR, CONN_STATE_ERROR),
       StateTransition(CONN_STATE_RECONNECTING, FSM_EVENT_SESSION_RECONNECTING, CONN_STATE_RECONNECTING) >>

transition_table_size == Len(transition_table)

\* The rule every state shares but Paused, whose pause flag is left on.
button_state_table_pause_left_on ==
    << [state |-> CONN_STATE_DISCONNECTED, buttons |-> ButtonStates(TRUE, FALSE, FALSE, FALSE, FALSE)],
       [state |-> CONN_STATE_CONNECTING, buttons |-> ButtonStates(FALSE, TRUE, FALSE, FALSE, FALSE)],
       [state |-> CONN_STATE_CONNECTED, buttons |-> ButtonStates(FALSE, TRUE, TRUE, FALSE, FALSE)],
       [state |-> CONN_STATE_PAUSED, buttons |-> ButtonStates(FALSE, TRUE, TRUE, TRUE, FALSE)],
       [state |-> CONN_STATE_AUTH_REQUIRED, buttons |-> ButtonStates(FALSE, TRUE, FALSE, FALSE, TRUE)],
       [state |-> CONN_STATE_ERROR, buttons |-> ButtonStates(TRUE, TRUE, FALSE, FALSE, FALSE)],
       [state |-> CONN_STATE_RECONNECTING, buttons |-> ButtonStates(FALSE, TRUE, FALSE, FALSE, FALSE)] >>

\* The table with connect left enabled in Connected.
button_state_table_connect_left_on ==
    << [state |-> CONN_STATE_DISCONNECTED, buttons |-> ButtonStates(TRUE, FALSE, FALSE, FALSE, FALSE)],
       [state |-> CONN_STATE_CONNECTING, buttons |-> ButtonStates(FALSE, TRUE, FALSE, FALSE, FALSE)],
       [state |-> CONN_STATE_CONNECTED, buttons |-> ButtonStates(TRUE, TRUE, TRUE, FALSE, FALSE)],
       [state |-> CONN_STATE_PAUSED, buttons |-> ButtonStates(FALSE, TRUE, FALSE, TRUE, FALSE)],
       [state |-> CONN_STATE_AUTH_REQUIRED, buttons |-> ButtonStates(FALSE, TRUE, FALSE, FALSE, TRUE)],
       [state |-> CONN_STATE_ERROR, buttons |-> ButtonStates(TRUE, TRUE, FALSE, FALSE, FALSE)],
       [state |-> CONN_STATE_RECONNECTING, buttons |-> ButtonStates(FALSE, TRUE, FALSE, FALSE, FALSE)] >>

button_state_table ==
    << [state |-> CONN_STATE_DISCONNECTED, buttons |-> ButtonStates(TRUE, FALSE, FALSE, FALSE, FALSE)],
       [state |-> CONN_STATE_CONNECTING, buttons |-> ButtonStates(FALSE, TRUE, FALSE, FALSE, FALSE)],
       [state |-> CONN_STATE_CONNECTED, buttons |-> ButtonStates(FALSE, TRUE, TRUE, FALSE, FALSE)],
       [state |-> CONN_STATE_PAUSED, buttons |-> ButtonStates(FALSE, TRUE, FALSE, TRUE, FALSE)],
       [state |-> CONN_STATE_AUTH_REQUIRED, buttons |-> ButtonStates(FALSE, TRUE, FALSE, FALSE, TRUE)],
       [state |-> CONN_STATE_ERROR, buttons |-> ButtonStates(TRUE, TRUE, FALSE, FALSE, FALSE)],
       [state |-> CONN_STATE_RECONNECTING, buttons |-> ButtonStates(FALSE, TRUE, FALSE, FALSE, FALSE)] >>

button_state_table_size == Len(button_state_table)

\* find_transition: the index of the first row for (from_state, event),
\* 0 for the NULL return.
find_transition(from_state, event) ==
    LET hits == { i \in 1..transition_table_size :
                    /\ transition_table[i].from_state = from_state
                    /\ transition_table[i].event = event }
    IN  IF hits = {} THEN 0
        ELSE CHOOSE i \in hits : \A j \in hits : i <= j

\* connection_fsm_create
connection_fsm_create == [exists |-> TRUE, current_state |-> CONN_STATE_DISCONNECTED]

\* the NULL ConnectionFsm pointer
NullFsm == [exists |-> FALSE, current_state |-> CONN_STATE_DISCONNECTED]

\* process_event that falls back to Disconnected on a missing row.
connection_fsm_process_event_guess(f, event) ==
    IF ~f.exists
    THEN [fsm |-> f, ret |-> CONN_STATE_DISCONNECTED, valid |-> FALSE]
    ELSE LET t == find_transition(f.current_state, event)
             new == IF t # 0 THEN transition_table[t].to_state
                    ELSE CONN_STATE_DISCONNECTED
         IN  [fsm |-> [f EXCEPT !.current_state = new], ret |-> new, valid |-> t # 0]

\* connection_fsm_process_event: the FSM after the call, the value returned
\* and whether the valid-transition branch was taken (FALSE: the branch that
\* logs "Invalid transition ... (ignored)").
connection_fsm_process_event(f, event) ==
    IF ~f.exists
    THEN [fsm |-> f, ret |-> CONN_STATE_DISCONNECTED, valid |-> FALSE]
    ELSE LET old_state == f.current_state
             t == find_transition(old_state, event)
             new == IF t # 0 THEN transition_table[t].to_state ELSE old_state
         IN  [fsm |-> [f EXCEPT !.current_state = new], ret |-> new, valid |-> t # 0]

\* connection_fsm_force_state
connection_fsm_force_state(f, state) ==
    IF ~f.exists THEN f ELSE [f EXCEPT !.current_state = state]

\* connection_fsm_get_state
connection_fsm_get_state(f) ==
    IF ~f.exists THEN CONN_STATE_DISCONNECTED ELSE f.current_state

\* connection_fsm_get_button_states
connection_fsm_get_button_states(f) ==
    LET default_states == ButtonStates(FALSE, FALSE, FALSE, FALSE, FALSE)
        hits == { i \in 1..button_state_table_size :
                    button_state_table[i].state = f.current_state }
    IN  IF ~f.exists THEN default_states
        ELSE IF hits = {} THEN default_states
        ELSE button_state_table[CHOOSE i \in hits : \A j \in hits : i <= j].buttons


(***************************************************************************)
(* C strings: a char* is NULL or a sequence of characters.                 *)
(***************************************************************************)
NullStr == [isnull |-> TRUE, chars |-> <<>>]

Str(chars) == [isnull |-> FALSE, chars |-> chars]

\* strstr(haystack, needle) on non-NULL strings: the 1-based position of the
\* first occurrence of needle in haystack, 0 for the NULL return.
strstr(haystack, needle) ==
    LET n == Len(needle)
        hits == { i \in 1..(Len(haystack) - n + 1) : SubSeq(haystack, i, i + n - 1) = needle }
    IN  IF n = 0 THEN 1
        ELSE IF hits = {} THEN 0
        ELSE CHOOSE i \in hits : \A j \in hits : i <= j

\* The string literals of dbus/session_client.c.
LIT_failed == <<"f", "a", "i", "l", "e", "d">>
LIT_Failed == <<"F", "a", "i", "l", "e", "d">>
LIT_Error == <<"E", "r", "r", "o", "r">>
LIT_authentication_required == <<"a", "u", "t", "h", "e", "n", "t", "i", "c", "a", "t", "i", "o", "n", " ", "r", "e", "q", "u", "i", "r", "e", "d">>
LIT_Web_authentication == <<"W", "e", "b", " ", "a", "u", "t", "h", "e", "n", "t", "i", "c", "a", "t", "i", "o", "n">>
LIT_https == <<"h", "t", "t", "p", "s", ":", "/", "/">>
LIT_Connecting == <<"C", "o", "n", "n", "e", "c", "t", "i", "n", "g">>
LIT_Reconnecting == <<"R", "e", "c", "o", "n", "n", "e", "c", "t", "i", "n", "g">>
LIT_Paused == <<"P", "a", "u", "s", "e", "d">>
LIT_http == <<"h", "t", "t", "p">>

(***************************************************************************)
(* dbus/session_client.c: session_get_auth_url (the authentication probe). *)
(* Its argument b is the bus as it answers this session (see ProbeEnv).    *)
(***************************************************************************)
EINVAL == 22
ENOENT == 2
ENODATA == 61

\* One bus method call as the probe issues it.
BusCall(method, type, group, id) == [method |-> method, type |-> type, group |-> group, id |-> id]

\* A finished call of session_get_auth_url: the value returned, *auth_url, the
\* bus calls issued in order, and whether the call came to return at all.
ProbeResult(ret, url, calls) == [ret |-> ret, auth_url |-> url, calls |-> calls, returned |-> TRUE]

\* The loop without its type test: it stops at the first entry of any type.
FirstAnyType(queue) == IF Len(queue) = 0 THEN 0 ELSE 1

\* The while loop over the UserInputQueueGetTypeGroup reply: the index of the
\* first (type, group) entry whose type is 1, 0 when found_auth stays false.
FirstWebAuth(queue) ==
    LET hits == { i \in 1..Len(queue) : queue[i].type = 1 }
    IN  IF hits = {} THEN 0 ELSE CHOOSE i \in hits : \A j \in hits : i <= j

\* The test of the description that accepts a URL anywhere in it.
description_is_url_anywhere(description) ==
    ~description.isnull /\ strstr(description.chars, LIT_http) # 0

\* description && strstr(description, "http") == description
description_is_url(description) ==
    ~description.isnull /\ strstr(description.chars, LIT_http) = 1

\* The last step of the probe: the UserInputQueueFetch reply is read and the
\* description tested.  A reply that cannot be read up to its description
\* leaves `description` uninitialised, and it is then handed to logger_debug
\* as a %s argument: the call either survives that read and returns
\* -ENODATA, or it does not return.
session_get_auth_url_fetch_reply(b, calls) ==
    IF b.fetch = "malformed_head"
    THEN { ProbeResult(-ENODATA, NullStr, calls),
           [ret |-> -ENODATA, auth_url |-> NullStr, calls |-> calls, returned |-> FALSE] }
    ELSE IF b.fetch = "ok" /\ description_is_url(b.description)
    THEN { ProbeResult(0, b.description, calls) }
    ELSE { ProbeResult(-ENODATA, NullStr, calls) }

\* session_get_auth_url: the set of outcomes of one call.
session_get_auth_url(b) ==
    LET w == FirstWebAuth(b.queue)
        c1 == << BusCall("UserInputQueueGetTypeGroup", 0, 0, 0) >>
        c2 == Append(c1, BusCall("UserInputQueueCheck", b.queue[w].type, b.queue[w].group, 0))
        c3 == Append(c2, BusCall("UserInputQueueFetch", b.queue[w].type, b.queue[w].group, b.ids[1]))
    IN  IF ~b.bus_ok THEN { ProbeResult(-EINVAL, NullStr, <<>>) }
        ELSE IF b.type_group = "fail" THEN { ProbeResult(b.errno, NullStr, c1) }
        ELSE IF b.type_group = "malformed" THEN { ProbeResult(b.errno, NullStr, c1) }
        ELSE IF w = 0 THEN { ProbeResult(-ENOENT, NullStr, c1) }
        ELSE IF b.check = "fail" THEN { ProbeResult(b.errno, NullStr, c2) }
        ELSE IF b.check = "malformed" THEN { ProbeResult(b.errno, NullStr, c2) }
        ELSE IF Len(b.ids) = 0 THEN { ProbeResult(-ENOENT, NullStr, c2) }
        ELSE IF b.fetch = "fail" THEN { ProbeResult(b.errno, NullStr, c3) }
        ELSE session_get_auth_url_fetch_reply(b, c3)

(***************************************************************************)
(* dbus/session_client.c: session_get_info (the status classifier).        *)
(***************************************************************************)
SESSION_STATE_DISCONNECTED == 0
SESSION_STATE_CONNECTING == 1
SESSION_STATE_CONNECTED == 2
SESSION_STATE_RECONNECTING == 3
SESSION_STATE_PAUSED == 4
SESSION_STATE_ERROR == 5
SESSION_STATE_AUTH_REQUIRED == 6

\* get_status_property: major, minor and status_message as session_get_info
\* holds them after the call (0, 0 and NULL when the property cannot be read).
get_status_property(st) ==
    IF st.ok THEN [major |-> st.major, minor |-> st.minor, message |-> st.message]
    ELSE [major |-> 0, minor |-> 0, message |-> NullStr]

\* is_session_connected, on the connected_to property reply ct
is_session_connected(ct) ==
    ct.ok /\ ~ct.protocol.isnull /\ ~ct.host.isnull /\ ct.port > 0

\* The free-text branch without the "Web authentication" pattern.
message_fallback_state_two_patterns(m) ==
    IF \/ strstr(m, LIT_authentication_required) # 0
       \/ strstr(m, LIT_https) # 0
    THEN SESSION_STATE_AUTH_REQUIRED
    ELSE IF strstr(m, LIT_Connecting) # 0 THEN SESSION_STATE_CONNECTING
    ELSE IF strstr(m, LIT_Reconnecting) # 0 THEN SESSION_STATE_RECONNECTING
    ELSE IF strstr(m, LIT_Paused) # 0 THEN SESSION_STATE_PAUSED
    ELSE SESSION_STATE_DISCONNECTED

\* session_get_info, the branch "Fallback to message parsing for other
\* states", on the characters m of a non-NULL status_message.
message_fallback_state(m) ==
    IF \/ strstr(m, LIT_authentication_required) # 0
       \/ strstr(m, LIT_Web_authentication) # 0
       \/ strstr(m, LIT_https) # 0
    THEN SESSION_STATE_AUTH_REQUIRED
    ELSE IF strstr(m, LIT_Connecting) # 0 THEN SESSION_STATE_CONNECTING
    ELSE IF strstr(m, LIT_Reconnecting) # 0 THEN SESSION_STATE_RECONNECTING
    ELSE IF strstr(m, LIT_Paused) # 0 THEN SESSION_STATE_PAUSED
    ELSE SESSION_STATE_DISCONNECTED

\* status_message && (strstr "failed" || strstr "Failed" || strstr "Error")
message_reports_failure(message) ==
    /\ ~message.isnull
    /\ \/ strstr(message.chars, LIT_failed) # 0
       \/ strstr(message.chars, LIT_Failed) # 0
       \/ strstr(message.chars, LIT_Error) # 0

\* The chain with the connected_to test ahead of the paused test.
session_state_connected_first(needs_auth, major, minor, connected, message) ==
    LET is_paused == (major = 4) \/ (major = 2 /\ (minor = 13 \/ minor = 14))
    IN  IF needs_auth THEN SESSION_STATE_AUTH_REQUIRED
        ELSE IF connected THEN SESSION_STATE_CONNECTED
        ELSE IF is_paused THEN SESSION_STATE_PAUSED
        ELSE IF message_reports_failure(message) THEN SESSION_STATE_ERROR
        ELSE IF major = 2 THEN SESSION_STATE_CONNECTING
        ELSE IF ~message.isnull THEN message_fallback_state(message.chars)
        ELSE SESSION_STATE_DISCONNECTED

\* The chain with the major == 2 test ahead of the failure-message test.
session_state_codes_first(needs_auth, major, minor, connected, message) ==
    LET is_paused == (major = 4) \/ (major = 2 /\ (minor = 13 \/ minor = 14))
    IN  IF needs_auth THEN SESSION_STATE_AUTH_REQUIRED
        ELSE IF is_paused THEN SESSION_STATE_PAUSED
        ELSE IF connected THEN SESSION_STATE_CONNECTED
        ELSE IF major = 2 THEN SESSION_STATE_CONNECTING
        ELSE IF message_reports_failure(message) THEN SESSION_STATE_ERROR
        ELSE IF ~message.isnull THEN message_fallback_state(message.chars)
        ELSE SESSION_STATE_DISCONNECTED

\* session_get_info, "Determine session state": the if / else-if chain.
session_state(needs_auth, major, minor, connected, message) ==
    LET is_paused == (major = 4) \/ (major = 2 /\ (minor = 13 \/ minor = 14))
    IN  IF needs_auth THEN SESSION_STATE_AUTH_REQUIRED
        ELSE IF is_paused THEN SESSION_STATE_PAUSED
        ELSE IF connected THEN SESSION_STATE_CONNECTED
        ELSE IF message_reports_failure(message) THEN SESSION_STATE_ERROR
        ELSE IF major = 2 THEN SESSION_STATE_CONNECTING
        ELSE IF ~message.isnull THEN message_fallback_state(message.chars)
        ELSE SESSION_STATE_DISCONNECTED

\* session_get_info on the properties and the probe answers e of one session:
\* the set of outcomes, each the inputs of the chain and the state it set.
session_get_info(e) ==
    LET st == get_status_property(e.status)
        connected == is_session_connected(e.connected_to)
    IN  { [returned |-> r.returned,
           needs_auth |-> r.returned /\ r.ret = 0,
           major |-> st.major, minor |-> st.minor, connected |-> connected,
           status_message |-> st.message,
           state |-> IF r.returned
                     THEN session_state(r.ret = 0, st.major, st.minor, connected, st.message)
                     ELSE SESSION_STATE_DISCONNECTED]
          : r \in session_get_auth_url(e.probe) }

(***************************************************************************)
(* The bus as it answers the probe for one session: each call fails        *)
(* (sd_bus_call_method < 0), returns a reply of another shape than the     *)
(* one read ("malformed"), or returns the reply described by queue, ids    *)
(* and description.                                                        *)
(***************************************************************************)
MaxQueue == 2
MaxIds == 2

SeqsUpTo(S, n) == UNION { [1..k -> S] : k \in 0..n }

QueueEntries == { [type |-> 1, group |-> 3], [type |-> 1, group |-> 4], [type |-> 2, group |-> 3] }

Descriptions ==
    { Str(<<"h", "t", "t", "p", "s", ":", "/", "/", "a">>),
      Str(<<"h", "t", "t", "p", ":", "/", "/", "a">>),
      Str(<<"s", "e", "e", " ", "h", "t", "t", "p", "s", ":", "/", "/", "a">>),
      Str(<<"h", "t", "t">>),
      Str(<<>>) }

ProbeEnv ==
    [ bus_ok : BOOLEAN,
      errno : {-5},
      type_group : {"fail", "malformed", "ok"},
      queue : SeqsUpTo(QueueEntries, MaxQueue),
      check : {"fail", "malformed", "ok"},
      ids : SeqsUpTo({7, 8}, MaxIds),
      fetch : {"fail", "malformed_head", "malformed_tail", "ok"},
      description : Descriptions ]

\* No bus connection (bus == NULL).
NoBus ==
    [bus_ok |-> FALSE, errno |-> -5, type_group |-> "fail", queue |-> <<>>, check |-> "fail",
     ids |-> <<>>, fetch |-> "fail", description |-> Str(<<>>)]

(***************************************************************************)
(* The properties of one session as the bus reports them.                  *)
(***************************************************************************)
MaxFragments == 2

\* The words status messages are made of: the patterns session_get_info
\* looks for, and words it does not look for.
Fragments ==
    { LIT_failed, LIT_Failed, LIT_Error, LIT_authentication_required, LIT_Web_authentication,
      LIT_https, LIT_Connecting, LIT_Reconnecting, LIT_Paused, <<"d", "o", "n", "e", " ">> }

RECURSIVE Concat(_)
Concat(ws) == IF Len(ws) = 0 THEN <<>> ELSE Head(ws) \o Concat(Tail(ws))

Messages == {NullStr} \cup { Str(Concat(ws)) : ws \in SeqsUpTo(Fragments, MaxFragments) }

NoStatus == [ok |-> FALSE, major |-> 0, minor |-> 0, message |-> NullStr]

StatusReplies ==
    {NoStatus} \cup [ok : {TRUE}, major : {0, 2, 4}, minor : {7, 13, 14}, message : Messages]

NoConnectedTo == [ok |-> FALSE, protocol |-> NullStr, host |-> NullStr, port |-> 0]

ConnectedToReplies ==
    { NoConnectedTo,
      [ok |-> TRUE, protocol |-> Str(<<>>), host |-> Str(<<>>), port |-> 0],
      [ok |-> TRUE, protocol |-> Str(<<"u", "d", "p">>), host |-> Str(<<"v", "p", "n">>), port |-> 0],
      [ok |-> TRUE, protocol |-> Str(<<"u", "d", "p">>), host |-> Str(<<"v", "p", "n">>), port |-> 1194] }

\* A session of which nothing can be read.
NoSession == [probe |-> NoBus, status |-> NoStatus, connected_to |-> NoConnectedTo]

\* The probe answers the classifier is checked with: a pending web
\* authentication, an empty queue, a failing call, a description that is no
\* URL, and a UserInputQueueFetch reply of another shape.
AuthPendingBus ==
    [bus_ok |-> TRUE, errno |-> -5, type_group |-> "ok", queue |-> << [type |-> 1, group |-> 3] >>,
     check |-> "ok", ids |-> << 7 >>, fetch |-> "ok", description |-> Str(<<"h", "t", "t", "p", "s", ":", "/", "/", "a">>)]

ProbeSamples ==
    { AuthPendingBus,
      [AuthPendingBus EXCEPT !.queue = <<>>],
      [AuthPendingBus EXCEPT !.type_group = "fail"],
      [AuthPendingBus EXCEPT !.description = Str(<<"s", "e", "e", " ", "h", "t", "t", "p", "s", ":", "/", "/", "a">>)],
      [AuthPendingBus EXCEPT !.fetch = "malformed_head"] }

SessionEnv == [probe : ProbeSamples, status : StatusReplies, connected_to : ConnectedToReplies]

SessionPaths == { "s1", "s2" }

\* No session path observed AuthRequired yet.
NoStreak == [p \in SessionPaths |-> [ticks |-> 0, opened |-> 0]]

NoReentry == [p \in SessionPaths |-> "none"]

(***************************************************************************)
(* The state machine, the probe and the classifier driven call by call.   *)
(***************************************************************************)
HistLen == 2

\* The last HistLen entries of h with e appended.
Remember(h, e) ==
    LET all == Append(h, e)
    IN  IF Len(all) <= HistLen THEN all ELSE SubSeq(all, Len(all) - HistLen + 1, Len(all))

\* No FSM created yet; the other parts of the state as they are created.
InitFsm ==
    /\ timer_calls = <<>>
    /\ bw_hist = <<>>
    /\ bw_out = <<>>
    /\ monitor = <<>>
    /\ cmd_out = <<>>
    /\ cleanup_out = <<>>
    /\ cleanup_env = <<>>
    /\ fsm = NullFsm
    /\ fsm_hist = <<>>
    /\ fsm_buttons = <<>>
    /\ probe_env = NoBus
    /\ probe_out = <<>>
    /\ cls_env = NoSession
    /\ cls_out = <<>>
    /\ connection_menu_items = <<>>
    /\ auth_launched = {}
    /\ session_timings = <<>>
    /\ tray_running = TRUE
    /\ auth_streak = NoStreak
    /\ auth_reentry = NoReentry
    /\ last_fetch = "none"
    /\ fetch_env = <<>>
    /\ fetch_out = <<>>
    /\ merge_env = <<>>
    /\ merge_out = <<>>
    /\ first_created = <<>>
    /\ start_env = <<>>
    /\ start_out = <<>>

FsmCreate ==
    /\ ~fsm.exists
    /\ fsm' = connection_fsm_create
    /\ fsm_hist' = <<>>
    /\ fsm_buttons' = <<>>
    /\ UNCHANGED <<service_vars, probe_vars, cls_vars, tray_vars, client_vars>>

FsmDestroy ==
    /\ fsm.exists
    /\ fsm' = NullFsm
    /\ fsm_hist' = <<>>
    /\ fsm_buttons' = <<>>
    /\ UNCHANGED <<service_vars, probe_vars, cls_vars, tray_vars, client_vars>>

FsmProcessEvent ==
    \E event \in ConnectionFsmEvent :
        LET r == connection_fsm_process_event(fsm, event)
        IN  /\ fsm' = r.fsm
            /\ fsm_hist' = Remember(fsm_hist,
                   [had_fsm |-> fsm.exists, old |-> fsm.current_state, event |-> event,
                    new |-> r.fsm.current_state, ret |-> r.ret, valid |-> r.valid])
            /\ fsm_buttons' = <<>>
            /\ UNCHANGED <<service_vars, probe_vars, cls_vars, tray_vars, client_vars>>

FsmForceState ==
    \E state \in ConnectionState :
        /\ fsm.exists
        /\ fsm' = connection_fsm_force_state(fsm, state)
        /\ fsm_hist' = <<>>
        /\ fsm_buttons' = <<>>
        /\ UNCHANGED <<service_vars, probe_vars, cls_vars, tray_vars, client_vars>>

FsmGetButtonStates ==
    /\ fsm_buttons' = << [state |-> connection_fsm_get_state(fsm), had_fsm |-> fsm.exists,
                          buttons |-> connection_fsm_get_button_states(fsm)] >>
    /\ UNCHANGED <<service_vars, fsm, fsm_hist, probe_vars, cls_vars, tray_vars, client_vars>>

NextFsm ==
    \/ FsmCreate
    \/ FsmDestroy
    \/ FsmProcessEvent
    \/ FsmForceState
    \/ FsmGetButtonStates

InitProbe ==
    /\ timer_calls = <<>>
    /\ bw_hist = <<>>
    /\ bw_out = <<>>
    /\ monitor = <<>>
    /\ cmd_out = <<>>
    /\ cleanup_out = <<>>
    /\ cleanup_env = <<>>
    /\ probe_env \in ProbeEnv
    /\ probe_out = <<>>
    /\ fsm = NullFsm
    /\ fsm_hist = <<>>
    /\ fsm_buttons = <<>>
    /\ cls_env = NoSession
    /\ cls_out = <<>>
    /\ connection_menu_items = <<>>
    /\ auth_launched = {}
    /\ session_timings = <<>>
    /\ tray_running = TRUE
    /\ auth_streak = NoStreak
    /\ auth_reentry = NoReentry
    /\ last_fetch = "none"
    /\ fetch_env = <<>>
    /\ fetch_out = <<>>
    /\ merge_env = <<>>
    /\ merge_out = <<>>
    /\ first_created = <<>>
    /\ start_env = <<>>
    /\ start_out = <<>>

\* One call of session_get_auth_url(bus, session_path, &auth_url), auth_url
\* initialised to NULL by the caller.
ProbeCall ==
    /\ probe_out = <<>>
    /\ \E r \in session_get_auth_url(probe_env) : probe_out' = << r >>
    /\ UNCHANGED <<service_vars, probe_env, fsm_vars, cls_vars, tray_vars, client_vars>>

NextProbe == ProbeCall

InitClassifier ==
    /\ timer_calls = <<>>
    /\ bw_hist = <<>>
    /\ bw_out = <<>>
    /\ monitor = <<>>
    /\ cmd_out = <<>>
    /\ cleanup_out = <<>>
    /\ cleanup_env = <<>>
    /\ cls_env \in SessionEnv
    /\ cls_out = <<>>
    /\ fsm = NullFsm
    /\ fsm_hist = <<>>
    /\ fsm_buttons = <<>>
    /\ probe_env = NoBus
    /\ probe_out = <<>>
    /\ connection_menu_items = <<>>
    /\ auth_launched = {}
    /\ session_timings = <<>>
    /\ tray_running = TRUE
    /\ auth_streak = NoStreak
    /\ auth_reentry = NoReentry
    /\ last_fetch = "none"
    /\ fetch_env = <<>>
    /\ fetch_out = <<>>
    /\ merge_env = <<>>
    /\ merge_out = <<>>
    /\ first_created = <<>>
    /\ start_env = <<>>
    /\ start_out = <<>>

\* One call of session_get_info(bus, session_path).
ClassifySession ==
    /\ cls_out = <<>>
    /\ \E r \in session_get_info(cls_env) : cls_out' = << r >>
    /\ UNCHANGED <<service_vars, cls_env, fsm_vars, probe_vars, tray_vars, client_vars>>

NextClassifier == ClassifySession

(***************************************************************************)
(* tray.c: the reconciliation tick.  The tick is called with the tray and  *)
(* the bus connection in place (main.c); widgets, labels, the tooltip and  *)
(* the widget lookup tables are presentation and not part of the state.    *)
(* A GHashTable pointer that is NULL and an empty table are the same set:  *)
(* every use tests the pointer first and then looks up, inserts, removes.  *)
(***************************************************************************)
\* The NULL session_path.
NullPath == "NULL"

\* The NULL config_name (the name property could not be read).
NullName == "NULL"

\* get_state_from_session
get_state_from_session(state) ==
    CASE state = SESSION_STATE_CONNECTING -> CONN_STATE_CONNECTING
      [] state = SESSION_STATE_CONNECTED -> CONN_STATE_CONNECTED
      [] state = SESSION_STATE_PAUSED -> CONN_STATE_PAUSED
      [] state = SESSION_STATE_AUTH_REQUIRED -> CONN_STATE_AUTH_REQUIRED
      [] state = SESSION_STATE_ERROR -> CONN_STATE_ERROR
      [] state = SESSION_STATE_RECONNECTING -> CONN_STATE_RECONNECTING
      [] OTHER -> CONN_STATE_DISCONNECTED

\* The configuration names of the model in strcmp order.
ConfigNames == << "A", "B", "Unknown" >>

\* strcmp on configuration names.
strcmp(a, b) ==
    LET rank(n) == CHOOSE i \in 1..Len(ConfigNames) : ConfigNames[i] = n
    IN  rank(a) - rank(b)

\* compare_connections (the config_name of a ConnectionInfo is never NULL)
compare_connections(conn_a, conn_b) == strcmp(conn_a.config_name, conn_b.config_name)

\* The array left in the order it was built in.
qsort_unsorted(connections) == { connections }

\* qsort with compare_connections: the orders it may leave the array in
\* (records that compare equal come out in either order).
qsort(connections) ==
    LET n == Len(connections)
        perms == { q \in [1..n -> 1..n] : \A i, j \in 1..n : i # j => q[i] # q[j] }
        sorted(q) == \A i \in 1..(n - 1) :
                         compare_connections(connections[q[i]], connections[q[i + 1]]) <= 0
    IN  { [i \in 1..n |-> connections[q[i]]] : q \in { q \in perms : sorted(q) } }

\* get_session_start_time that looks nothing up.
get_session_start_time_uncached(timings, session_path, session_created) ==
    [time |-> session_created,
     timings |-> [q \in DOMAIN timings \cup {session_path} |->
                     IF q = session_path THEN session_created ELSE timings[q]]]

\* get_session_start_time: the time returned and the session_timings table
\* after the call (a cached value of 0 reads as a missing entry).
get_session_start_time(timings, session_path, session_created) ==
    IF session_path \in DOMAIN timings /\ timings[session_path] # 0
    THEN [time |-> timings[session_path], timings |-> timings]
    ELSE [time |-> session_created,
          timings |-> [q \in DOMAIN timings \cup {session_path} |->
                          IF q = session_path THEN session_created ELSE timings[q]]]

\* The round that adds no ConnectionInfo for a config without a session.
merge_step_drop_unmatched(acc, config, sessions) ==
    LET hits == { j \in 1..Len(sessions) :
                      /\ sessions[j].config_name # NullName
                      /\ config.config_name # NullName
                      /\ sessions[j].config_name = config.config_name }
        j == IF hits = {} THEN 0 ELSE CHOOSE j \in hits : \A k \in hits : j <= k
        t == IF j = 0 THEN [time |-> 0, timings |-> acc.timings]
             ELSE get_session_start_time(acc.timings, sessions[j].session_path,
                                         sessions[j].session_created)
        conn == [config_path |-> config.config_path,
                 config_name |-> IF config.config_name # NullName THEN config.config_name
                                 ELSE "Unknown",
                 session_path |-> IF j = 0 THEN NullPath ELSE sessions[j].session_path,
                 state |-> IF j = 0 THEN CONN_STATE_DISCONNECTED
                           ELSE get_state_from_session(sessions[j].state),
                 connect_time |-> t.time]
    IN  IF j = 0 THEN acc
        ELSE [connections |-> Append(acc.connections, conn), timings |-> t.timings]

\* The round whose inner loop has no break: the last session of the name wins.
merge_step_last_match(acc, config, sessions) ==
    LET hits == { j \in 1..Len(sessions) :
                      /\ sessions[j].config_name # NullName
                      /\ config.config_name # NullName
                      /\ sessions[j].config_name = config.config_name }
        j == IF hits = {} THEN 0 ELSE CHOOSE j \in hits : \A k \in hits : j >= k
        t == IF j = 0 THEN [time |-> 0, timings |-> acc.timings]
             ELSE get_session_start_time(acc.timings, sessions[j].session_path,
                                         sessions[j].session_created)
        conn == [config_path |-> config.config_path,
                 config_name |-> IF config.config_name # NullName THEN config.config_name
                                 ELSE "Unknown",
                 session_path |-> IF j = 0 THEN NullPath ELSE sessions[j].session_path,
                 state |-> IF j = 0 THEN CONN_STATE_DISCONNECTED
                           ELSE get_state_from_session(sessions[j].state),
                 connect_time |-> t.time]
    IN  [connections |-> Append(acc.connections, conn), timings |-> t.timings]

\* One round of the loop of merge_connections_data: the ConnectionInfo of
\* config, matched to the first session of the same name, is added to the
\* array in acc.
merge_step(acc, config, sessions) ==
    LET hits == { j \in 1..Len(sessions) :
                      /\ sessions[j].config_name # NullName
                      /\ config.config_name # NullName
                      /\ sessions[j].config_name = config.config_name }
        j == IF hits = {} THEN 0 ELSE CHOOSE j \in hits : \A k \in hits : j <= k
        t == IF j = 0 THEN [time |-> 0, timings |-> acc.timings]
             ELSE get_session_start_time(acc.timings, sessions[j].session_path,
                                         sessions[j].session_created)
        conn == [config_path |-> config.config_path,
                 config_name |-> IF config.config_name # NullName THEN config.config_name
                                 ELSE "Unknown",
                 session_path |-> IF j = 0 THEN NullPath ELSE sessions[j].session_path,
                 state |-> IF j = 0 THEN CONN_STATE_DISCONNECTED
                           ELSE get_state_from_session(sessions[j].state),
                 connect_time |-> t.time]
    IN  [connections |-> Append(acc.connections, conn), timings |-> t.timings]

\* The loop of merge_connections_data from configs[i] on.
RECURSIVE merge_loop(_, _, _, _)
merge_loop(acc, configs, i, sessions) ==
    IF i > Len(configs) THEN { acc }
    ELSE UNION { merge_loop(next, configs, i + 1, sessions)
                 : next \in { merge_step(acc, configs[i], sessions) } }

\* merge_connections_data on the results of config_list and session_list:
\* the arrays it may return (isnull: the NULL return) with the
\* session_timings table after the call.
merge_connections_data(cfg, ses, timings) ==
    IF cfg.r < 0 \/ cfg.configs = <<>>
    THEN { [isnull |-> TRUE, connections |-> <<>>, timings |-> timings] }
    ELSE UNION { { [isnull |-> FALSE, connections |-> c, timings |-> m.timings]
                   : c \in qsort(m.connections) }
                 : m \in merge_loop([connections |-> <<>>, timings |-> timings], cfg.configs, 1,
                                    IF ses.r < 0 THEN <<>> ELSE ses.sessions) }

\* map_state_to_event
map_state_to_event(new_state) ==
    CASE new_state = CONN_STATE_CONNECTING -> FSM_EVENT_SESSION_CONNECTING
      [] new_state = CONN_STATE_CONNECTED -> FSM_EVENT_SESSION_CONNECTED
      [] new_state = CONN_STATE_PAUSED -> FSM_EVENT_SESSION_PAUSED
      [] new_state = CONN_STATE_AUTH_REQUIRED -> FSM_EVENT_SESSION_AUTH_REQUIRED
      [] new_state = CONN_STATE_ERROR -> FSM_EVENT_SESSION_ERROR
      [] new_state = CONN_STATE_RECONNECTING -> FSM_EVENT_SESSION_RECONNECTING
      [] OTHER -> FSM_EVENT_SESSION_DISCONNECTED

\* create_connection_menu_item that sets the FSM to the state the record was
\* found in.
create_connection_menu_item_forced(conn) ==
    [config_name |-> conn.config_name,
     session_path |-> conn.session_path,
     state |-> conn.state,
     connect_time |-> conn.connect_time,
     fsm |-> connection_fsm_force_state(connection_fsm_create, conn.state)]

\* create_connection_menu_item: the ConnectionMenuItem for conn, its FSM
\* created and sent the event of the state conn was found in (no event for
\* Disconnected).
create_connection_menu_item(conn) ==
    LET created == connection_fsm_create
        initial_event == map_state_to_event(conn.state)
    IN  [config_name |-> conn.config_name,
         session_path |-> conn.session_path,
         state |-> conn.state,
         connect_time |-> conn.connect_time,
         fsm |-> IF conn.state = CONN_STATE_DISCONNECTED THEN created
                 ELSE connection_fsm_process_event(created, initial_event).fsm]

\* launch_auth_browser on the answers e of the bus for the session: the
\* outcomes of the call, each saying whether it returned and whether the
\* browser was opened.  The URL is the probe's, or else the status message
\* when it holds "https://".
launch_auth_browser(e) ==
    UNION { IF ~r.returned THEN { [returned |-> FALSE, opened |-> FALSE] }
            ELSE IF r.ret < 0 \/ r.auth_url.isnull
            THEN { IF ~i.returned THEN [returned |-> FALSE, opened |-> FALSE]
                   ELSE [returned |-> TRUE,
                         opened |-> /\ ~i.status_message.isnull
                                    /\ strstr(i.status_message.chars, LIT_https) # 0]
                   : i \in session_get_info(e) }
            ELSE { [returned |-> TRUE, opened |-> TRUE] }
          : r \in session_get_auth_url(e.probe) }

\* The answers of the bus launch_auth_browser is run against: a pending web
\* authentication, an empty queue with the URL in the status message, an
\* empty queue with no URL anywhere, and a UserInputQueueFetch reply of
\* another shape.
LaunchEnvs ==
    { [probe |-> AuthPendingBus, status |-> NoStatus, connected_to |-> NoConnectedTo],
      [probe |-> [AuthPendingBus EXCEPT !.queue = <<>>],
       status |-> [ok |-> TRUE, major |-> 2, minor |-> 7, message |-> Str(LIT_https)],
       connected_to |-> NoConnectedTo],
      [probe |-> [AuthPendingBus EXCEPT !.queue = <<>>], status |-> NoStatus,
       connected_to |-> NoConnectedTo],
      [probe |-> [AuthPendingBus EXCEPT !.fetch = "malformed_head"], status |-> NoStatus,
       connected_to |-> NoConnectedTo] }

LaunchOutcomes == UNION { launch_auth_browser(e) : e \in LaunchEnvs }

\* update_connection_menu_item that asks for the URL and does not record it.
update_connection_menu_item_unrecorded(item, conn, launched) ==
    LET old_state == item.state
        new_state == conn.state
        r == connection_fsm_process_event(item.fsm, map_state_to_event(new_state))
        it == [config_name |-> item.config_name,
               session_path |-> conn.session_path,
               state |-> IF old_state # new_state THEN r.ret ELSE item.state,
               connect_time |-> conn.connect_time,
               fsm |-> IF old_state # new_state THEN r.fsm ELSE item.fsm]
    IN  IF /\ conn.state = CONN_STATE_AUTH_REQUIRED
           /\ conn.session_path # NullPath
           /\ conn.session_path \notin launched
        THEN { [item |-> it, auth_launched |-> launched,
                calls |-> << [session_path |-> conn.session_path, opened |-> o.opened] >>,
                returned |-> o.returned]
               : o \in LaunchOutcomes }
        ELSE { [item |-> it, auth_launched |-> launched, calls |-> <<>>, returned |-> TRUE] }

\* update_connection_menu_item(item, conn, bus) with the auth_launched table
\* launched: the outcomes of the call, each the item and the table after it,
\* the calls of launch_auth_browser made, and whether the call returned.
update_connection_menu_item(item, conn, launched) ==
    LET old_state == item.state
        new_state == conn.state
        r == connection_fsm_process_event(item.fsm, map_state_to_event(new_state))
        it == [config_name |-> item.config_name,
               session_path |-> conn.session_path,
               state |-> IF old_state # new_state THEN r.ret ELSE item.state,
               connect_time |-> conn.connect_time,
               fsm |-> IF old_state # new_state THEN r.fsm ELSE item.fsm]
    IN  IF /\ conn.state = CONN_STATE_AUTH_REQUIRED
           /\ conn.session_path # NullPath
           /\ conn.session_path \notin launched
        THEN { [item |-> it,
                auth_launched |-> IF o.returned THEN launched \cup {conn.session_path}
                                  ELSE launched,
                calls |-> << [session_path |-> conn.session_path, opened |-> o.opened] >>,
                returned |-> o.returned]
               : o \in LaunchOutcomes }
        ELSE { [item |-> it, auth_launched |-> launched, calls |-> <<>>, returned |-> TRUE] }

\* One round of the update-or-create loop of tray_icon_update_sessions, on
\* the tables t and the record conn: its outcomes.
update_or_create_step(t, conn) ==
    IF conn.config_path \in DOMAIN t.items
    THEN { [items |-> [t.items EXCEPT ![conn.config_path] = u.item],
            auth_launched |-> u.auth_launched,
            calls |-> t.calls \o u.calls,
            returned |-> u.returned]
           : u \in update_connection_menu_item(t.items[conn.config_path], conn,
                                               t.auth_launched) }
    ELSE { [items |-> [c \in DOMAIN t.items \cup {conn.config_path} |->
                          IF c = conn.config_path THEN item ELSE t.items[c]],
            auth_launched |-> t.auth_launched,
            calls |-> t.calls,
            returned |-> TRUE]
           : item \in { create_connection_menu_item(conn) } }

\* The update-or-create loop from connections[i] on; it stops where a call
\* does not return.
RECURSIVE update_or_create(_, _, _)
update_or_create(t, connections, i) ==
    IF i > Len(connections) \/ ~t.returned THEN { t }
    ELSE UNION { update_or_create(next, connections, i + 1)
                 : next \in update_or_create_step(t, connections[i]) }

\* The end of tray_icon_update_sessions: the auth_launched table after the
\* clean-up, for the array m that merge_connections_data returned.
cleanup_auth_launched(launched, m) ==
    LET active_count == Cardinality({ i \in 1..Len(m.connections) :
                                        m.connections[i].state # CONN_STATE_DISCONNECTED })
    IN  IF active_count = 0 THEN {}
        ELSE IF ~m.isnull
        THEN { tracked_path \in launched :
                 \E i \in 1..Len(m.connections) :
                     m.connections[i].session_path = tracked_path }
        ELSE launched

(***************************************************************************)
(* What the bus reports on a tick, and the tick.                           *)
(***************************************************************************)
MaxConfigs == 2
MaxSessions == 2
MaxStreak == 3
MaxCount == 2

\* The states session_get_info classified the listed sessions in.
PolledStates ==
    { SESSION_STATE_DISCONNECTED, SESSION_STATE_CONNECTED, SESSION_STATE_AUTH_REQUIRED }

CreationTimes == { 5 }

\* The sessions a listing may hold: s1 runs a configuration named "A", s2
\* one named "A" or "B".
Sessions ==
    { s \in [ session_path : SessionPaths, config_name : { "A", "B" }, state : PolledStates,
              session_created : CreationTimes ] :
        s.session_path = "s1" => s.config_name = "A" }

\* Strictly increasing index sequences: the sub-lists of a list of n.
SubLists(n, max) ==
    { q \in SeqsUpTo(1..n, max) : \A i \in 1..(Len(q) - 1) : q[i] < q[i + 1] }

\* The configurations in the order the configuration manager lists them.
ConfigOrder ==
    << [config_path |-> "c1", config_name |-> "B"],
       [config_path |-> "c2", config_name |-> "A"],
       [config_path |-> "c3", config_name |-> "A"] >>

\* config_list: an error, or the configurations (none: *configs is NULL).
ConfigListResults ==
    { [r |-> -5, configs |-> <<>>] } \cup
    { [r |-> 0, configs |-> [i \in 1..Len(q) |-> ConfigOrder[q[i]]]] :
        q \in SubLists(Len(ConfigOrder), MaxConfigs) }

\* session_list: an error, or the sessions in fetch order.
SessionListResults ==
    { [r |-> -5, sessions |-> <<>>] } \cup
    { [r |-> 0, sessions |-> ss] :
        ss \in { ss \in SeqsUpTo(Sessions, MaxSessions) :
                   \A i, j \in 1..Len(ss) : i # j => ss[i].session_path # ss[j].session_path } }

\* session_list is called once config_list has returned configurations.
SessionListCalled(cfg) ==
    IF cfg.r < 0 \/ cfg.configs = <<>> THEN { [r |-> -5, sessions |-> <<>>] }
    ELSE SessionListResults

Min(a, b) == IF a <= b THEN a ELSE b

\* The tables as tray.c declares them (NULL), no tick made yet.
InitTray ==
    /\ timer_calls = <<>>
    /\ bw_hist = <<>>
    /\ bw_out = <<>>
    /\ monitor = <<>>
    /\ cmd_out = <<>>
    /\ cleanup_out = <<>>
    /\ cleanup_env = <<>>
    /\ connection_menu_items = <<>>
    /\ auth_launched = {}
    /\ session_timings = <<>>
    /\ tray_running = TRUE
    /\ auth_streak = NoStreak
    /\ auth_reentry = NoReentry
    /\ last_fetch = "none"
    /\ fetch_env = <<>>
    /\ fetch_out = <<>>
    /\ merge_env = <<>>
    /\ merge_out = <<>>
    /\ first_created = <<>>
    /\ start_env = <<>>
    /\ start_out = <<>>
    /\ fsm = NullFsm
    /\ fsm_hist = <<>>
    /\ fsm_buttons = <<>>
    /\ probe_env = NoBus
    /\ probe_out = <<>>
    /\ cls_env = NoSession
    /\ cls_out = <<>>

\* The session path p is that of a record of m in state AuthRequired.
ObservedAuthRequired(m, p) ==
    \E i \in 1..Len(m.connections) :
        /\ m.connections[i].session_path = p
        /\ m.connections[i].state = CONN_STATE_AUTH_REQUIRED

\* auth_streak after a tick that reconciled m and made the calls of
\* launch_auth_browser in calls.
Streak(streak, m, calls) ==
    [p \in SessionPaths |->
        LET mine == { k \in 1..Len(calls) : calls[k].session_path = p }
        IN  IF ObservedAuthRequired(m, p)
            THEN [ticks |-> Min(streak[p].ticks + 1, MaxStreak),
                  opened |-> Min(streak[p].opened
                                   + Cardinality({ k \in mine : calls[k].opened }), MaxCount)]
            ELSE [ticks |-> 0, opened |-> 0]]

\* The session path p is that of a record of m, none of them AuthRequired.
ObservedOtherState(m, p) ==
    /\ \E i \in 1..Len(m.connections) : m.connections[i].session_path = p
    /\ ~ObservedAuthRequired(m, p)

\* auth_reentry after a tick that reconciled m and made the calls of
\* launch_auth_browser in calls, streak being auth_streak before the tick.
Reentry(reentry, streak, m, calls) ==
    [p \in SessionPaths |->
        IF ObservedAuthRequired(m, p)
        THEN IF reentry[p] # "left" THEN "none"
             ELSE IF \E k \in 1..Len(calls) : calls[k].session_path = p
                  THEN "none" ELSE "skipped"
        ELSE IF ObservedOtherState(m, p) /\ (streak[p].opened > 0 \/ reentry[p] = "left")
             THEN "left" ELSE "none"]

\* tray_icon_update_sessions(tray, bus): one reconciliation tick.
Tick ==
    /\ tray_running
    /\ \E cfg \in ConfigListResults : \E ses \in SessionListCalled(cfg) :
       \E m \in merge_connections_data(cfg, ses, session_timings) :
       \E t \in update_or_create([items |-> connection_menu_items,
                                  auth_launched |-> auth_launched,
                                  calls |-> <<>>, returned |-> TRUE],
                                 m.connections, 1) :
         /\ UNCHANGED <<service_vars, fsm_vars, probe_vars, cls_vars, client_vars>>
         /\ session_timings' = m.timings
         /\ auth_streak' = Streak(auth_streak, m, t.calls)
         /\ auth_reentry' = Reentry(auth_reentry, auth_streak, m, t.calls)
         /\ last_fetch' = IF cfg.r < 0 THEN "config_list"
                          ELSE IF cfg.configs # <<>> /\ ses.r < 0 THEN "session_list"
                          ELSE "ok"
         /\ tray_running' = t.returned
         /\ IF t.returned
            THEN /\ connection_menu_items' =
                      [c \in { c \in DOMAIN t.items :
                                 \E i \in 1..Len(m.connections) :
                                     m.connections[i].config_path = c } |-> t.items[c]]
                 /\ auth_launched' = cleanup_auth_launched(t.auth_launched, m)
            ELSE /\ connection_menu_items' = t.items
                 /\ auth_launched' = t.auth_launched

NextTray == Tick

(***************************************************************************)
(* dbus/config_client.c: config_list, and dbus/session_client.c:           *)
(* session_list.  Their argument env is the bus as it answers the fetch:   *)
(* answers[k] is what the k-th sd_bus_call_method of the Fetch method      *)
(* returns, reply the reply a successful call hands back.                  *)
(***************************************************************************)
\* A finished list fetch: the value returned, the object paths behind
\* *configs or *sessions (none: the pointer is NULL), and the attempts
\* ("call") and waits ("sleep") made in order.
FetchResult(r, list, trace) == [r |-> r, list |-> list, trace |-> trace]

\* The reply parsed: the container entered, each object path read and its
\* info fetched; a path whose info is NULL is left out.
fetch_parse_reply(reply, trace) ==
    IF reply.enter < 0 THEN FetchResult(reply.enter, <<>>, trace)
    ELSE LET got == SelectSeq(reply.entries, LAMBDA e : e.info)
         IN  FetchResult(0, [i \in 1..Len(got) |-> got[i].path], trace)

\* The retry loop giving up one attempt early.
RECURSIVE config_list_retry_five(_, _, _)
config_list_retry_five(env, retry, trace) ==
    LET r == env.answers[retry + 1]
        called == Append(trace, "call")
    IN  IF r >= 0 THEN fetch_parse_reply(env.reply, called)
        ELSE IF retry < 4 /\ (r = -ENODATA \/ r = -53)
        THEN config_list_retry_five(env, retry + 1, Append(called, "sleep"))
        ELSE FetchResult(r, <<>>, called)

\* The retry loop waiting and trying again after every kind of failure.
RECURSIVE config_list_retry_any_error(_, _, _)
config_list_retry_any_error(env, retry, trace) ==
    LET r == env.answers[retry + 1]
        called == Append(trace, "call")
    IN  IF r >= 0 THEN fetch_parse_reply(env.reply, called)
        ELSE IF retry < 5
        THEN config_list_retry_any_error(env, retry + 1, Append(called, "sleep"))
        ELSE FetchResult(r, <<>>, called)

\* The loop of config_list, for (retry = 0; retry < 6; retry++), from retry
\* on: every pass ends in break, continue or return, and the pass with
\* retry = 5 never continues.
RECURSIVE config_list_retry(_, _, _)
config_list_retry(env, retry, trace) ==
    LET r == env.answers[retry + 1]
        called == Append(trace, "call")
    IN  IF r >= 0 THEN fetch_parse_reply(env.reply, called)
        ELSE IF retry < 5 /\ (r = -ENODATA \/ r = -53)
        THEN config_list_retry(env, retry + 1, Append(called, "sleep"))
        ELSE FetchResult(r, <<>>, called)

\* config_list(bus, &configs, &count)
config_list(env) == config_list_retry(env, 0, <<>>)

\* session_list(bus, &sessions, &count): one call, no loop.
session_list(env) ==
    LET r == env.answers[1]
        called == << "call" >>
    IN  IF r >= 0 THEN fetch_parse_reply(env.reply, called)
        ELSE FetchResult(r, <<>>, called)

\* One answer more than the six passes of config_list's loop can ask for.
AnswerCount == 6 + 1

\* What a call of the Fetch method returns: success, or a negative errno.
FetchAnswers == { 0, -ENODATA, -53, -EINVAL }

\* The replies: one that is no array of object paths, an empty array, and
\* an array of two paths, the second of which has no info to be had.
FetchReplies ==
    { [enter |-> -EINVAL, entries |-> <<>>],
      [enter |-> 1, entries |-> <<>>],
      [enter |-> 1, entries |-> << [path |-> "p1", info |-> TRUE],
                                   [path |-> "p2", info |-> FALSE] >>] }

FetchEnv == [answers : [1..AnswerCount -> FetchAnswers], reply : FetchReplies]

InitFetch ==
    /\ timer_calls = <<>>
    /\ bw_hist = <<>>
    /\ bw_out = <<>>
    /\ monitor = <<>>
    /\ cmd_out = <<>>
    /\ cleanup_out = <<>>
    /\ cleanup_env = <<>>
    /\ fetch_env \in FetchEnv
    /\ fetch_out = <<>>
    /\ fsm = NullFsm
    /\ fsm_hist = <<>>
    /\ fsm_buttons = <<>>
    /\ probe_env = NoBus
    /\ probe_out = <<>>
    /\ cls_env = NoSession
    /\ cls_out = <<>>
    /\ connection_menu_items = <<>>
    /\ auth_launched = {}
    /\ session_timings = <<>>
    /\ tray_running = TRUE
    /\ auth_streak = NoStreak
    /\ auth_reentry = NoReentry
    /\ last_fetch = "none"
    /\ merge_env = <<>>
    /\ merge_out = <<>>
    /\ first_created = <<>>
    /\ start_env = <<>>
    /\ start_out = <<>>

\* One call of config_list.
ConfigListCall ==
    /\ fetch_out = <<>>
    /\ \E o \in { config_list(fetch_env) } :
           fetch_out' = << [fn |-> "config_list", r |-> o.r, list |-> o.list,
                            trace |-> o.trace] >>
    /\ UNCHANGED <<service_vars, fetch_env, fsm_vars, probe_vars, cls_vars, tray_vars, merge_vars, start_vars>>

\* One call of session_list.
SessionListCall ==
    /\ fetch_out = <<>>
    /\ \E o \in { session_list(fetch_env) } :
           fetch_out' = << [fn |-> "session_list", r |-> o.r, list |-> o.list,
                            trace |-> o.trace] >>
    /\ UNCHANGED <<service_vars, fetch_env, fsm_vars, probe_vars, cls_vars, tray_vars, merge_vars, start_vars>>

NextFetch ==
    \/ ConfigListCall
    \/ SessionListCall

(***************************************************************************)
(* tray.c: merge_connections_data called on its own, on the lists in      *)
(* merge_env and the session_timings table of the state.                   *)
(***************************************************************************)
\* The configurations in the order listed, one of them without a name.
MergeConfigOrder == ConfigOrder \o << [config_path |-> "c4", config_name |-> NullName] >>

MergeConfigResults ==
    { [r |-> -5, configs |-> <<>>] } \cup
    { [r |-> 0, configs |-> [i \in 1..Len(q) |-> MergeConfigOrder[q[i]]]] :
        q \in SubLists(Len(MergeConfigOrder), MaxConfigs) }

\* The sessions a listing may hold, in any classified state: s1 runs a
\* configuration named "A"; s2 one of any name, or its name could not be read.
MergeSessions ==
    { s \in [ session_path : SessionPaths, config_name : { "A", "B", "Unknown", NullName },
              state : SESSION_STATE_DISCONNECTED..SESSION_STATE_AUTH_REQUIRED,
              session_created : CreationTimes ] :
        s.session_path = "s1" => s.config_name = "A" }

MergeSessionResults ==
    { [r |-> -5, sessions |-> <<>>] } \cup
    { [r |-> 0, sessions |-> ss] :
        ss \in { ss \in SeqsUpTo(MergeSessions, MaxSessions) :
                   \A i, j \in 1..Len(ss) : i # j => ss[i].session_path # ss[j].session_path } }

InitMerge ==
    /\ timer_calls = <<>>
    /\ bw_hist = <<>>
    /\ bw_out = <<>>
    /\ monitor = <<>>
    /\ cmd_out = <<>>
    /\ cleanup_out = <<>>
    /\ cleanup_env = <<>>
    /\ merge_env \in [cfg : MergeConfigResults, ses : MergeSessionResults]
    /\ merge_out = <<>>
    /\ session_timings = <<>>
    /\ first_created = <<>>
    /\ fsm = NullFsm
    /\ fsm_hist = <<>>
    /\ fsm_buttons = <<>>
    /\ probe_env = NoBus
    /\ probe_out = <<>>
    /\ cls_env = NoSession
    /\ cls_out = <<>>
    /\ connection_menu_items = <<>>
    /\ auth_launched = {}
    /\ tray_running = TRUE
    /\ auth_streak = NoStreak
    /\ auth_reentry = NoReentry
    /\ last_fetch = "none"
    /\ fetch_env = <<>>
    /\ fetch_out = <<>>
    /\ start_env = <<>>
    /\ start_out = <<>>

\* One call of merge_connections_data(bus, &connection_count).
MergeCall ==
    /\ merge_out = <<>>
    /\ \E m \in merge_connections_data(merge_env.cfg, merge_env.ses, session_timings) :
         /\ merge_out' = << m >>
         /\ session_timings' = m.timings
    /\ UNCHANGED <<service_vars, merge_env, first_created, fsm_vars, probe_vars, cls_vars, fetch_vars,
                   start_vars, connection_menu_items, auth_launched, tray_running,
                   auth_streak, auth_reentry, last_fetch>>

NextMerge == MergeCall

(***************************************************************************)
(* tray.c: the session_timings table over the polls.  It is written by     *)
(* get_session_start_time, which merge_connections_data calls on every     *)
(* tick and tray_icon_update_timers calls every second, and by             *)
(* remove_session_timing, which disconnect_callback calls.  first_created  *)
(* keeps for each session path: first, the creation timestamp of the poll  *)
(* that first matched it; cached, the timestamp of the call that made its  *)
(* present table entry; dropped, whether disconnect_callback removed the   *)
(* entry since; changed, whether a later call came with another timestamp  *)
(* than first; at_poll, cached as it was at the end of the last poll that  *)
(* matched it.                                                             *)
(***************************************************************************)
\* remove_session_timing
remove_session_timing(timings, session_path) ==
    [q \in DOMAIN timings \ {session_path} |-> timings[q]]

\* The creation timestamps the bus reports: 0 is what get_uint64_property
\* gives when the property cannot be read.
PollCreationTimes == { 0, 5 }

\* The states the polled sessions are classified in.
PollStates == { SESSION_STATE_CONNECTED, SESSION_STATE_PAUSED }

\* The sessions a listing may hold: s1 of the configuration named "A", s2 of
\* the one named "B".
PollSessions ==
    { s \in [ session_path : SessionPaths, config_name : { "A", "B" }, state : PollStates,
              session_created : PollCreationTimes ] :
        s.session_path = "s1" <=> s.config_name = "A" }

PollSessionResults ==
    { [r |-> -5, sessions |-> <<>>] } \cup
    { [r |-> 0, sessions |-> ss] :
        ss \in { ss \in SeqsUpTo(PollSessions, MaxSessions) :
                   \A i, j \in 1..Len(ss) : i # j => ss[i].session_path # ss[j].session_path } }

PollConfigResults ==
    { [r |-> -5, configs |-> <<>>],
      [r |-> 0, configs |-> << ConfigOrder[2] >>],
      [r |-> 0, configs |-> << ConfigOrder[1], ConfigOrder[2] >>] }

\* The history entry of a session path after a call of
\* get_session_start_time for it with the creation timestamp created.
Seen(history, session_path, created) ==
    IF session_path \in DOMAIN history
    THEN [history[session_path] EXCEPT
              !.cached = IF history[session_path].dropped \/ @ = 0 THEN created ELSE @,
              !.dropped = FALSE,
              !.changed = @ \/ created # history[session_path].first]
    ELSE [first |-> created, cached |-> created, dropped |-> FALSE, changed |-> FALSE,
          at_poll |-> created]

\* The session paths of the records of the array last returned.
RecordPaths(states) ==
    IF merge_out = <<>> THEN {}
    ELSE { merge_out[1].connections[k].session_path :
             k \in { k \in 1..Len(merge_out[1].connections) :
                       /\ merge_out[1].connections[k].session_path # NullPath
                       /\ merge_out[1].connections[k].state \in states } }

InitPoll ==
    /\ timer_calls = <<>>
    /\ bw_hist = <<>>
    /\ bw_out = <<>>
    /\ monitor = <<>>
    /\ cmd_out = <<>>
    /\ cleanup_out = <<>>
    /\ cleanup_env = <<>>
    /\ session_timings = <<>>
    /\ merge_out = <<>>
    /\ first_created = <<>>
    /\ merge_env = <<>>
    /\ fsm = NullFsm
    /\ fsm_hist = <<>>
    /\ fsm_buttons = <<>>
    /\ probe_env = NoBus
    /\ probe_out = <<>>
    /\ cls_env = NoSession
    /\ cls_out = <<>>
    /\ connection_menu_items = <<>>
    /\ auth_launched = {}
    /\ tray_running = TRUE
    /\ auth_streak = NoStreak
    /\ auth_reentry = NoReentry
    /\ last_fetch = "none"
    /\ fetch_env = <<>>
    /\ fetch_out = <<>>
    /\ start_env = <<>>
    /\ start_out = <<>>

\* The call of merge_connections_data of one tick.
PollTimings ==
    \E cfg \in PollConfigResults :
    \E ses \in IF cfg.r < 0 THEN { [r |-> -5, sessions |-> <<>>] } ELSE PollSessionResults :
    \E m \in merge_connections_data(cfg, ses, session_timings) :
        LET matched == { j \in 1..Len(ses.sessions) :
                           \E k \in 1..Len(m.connections) :
                               m.connections[k].session_path = ses.sessions[j].session_path }
            paths == { ses.sessions[j].session_path : j \in matched }
            created(q) == (CHOOSE j \in matched : ses.sessions[j].session_path = q)
        IN  /\ merge_out' = << m >>
            /\ session_timings' = m.timings
            /\ first_created' =
                   [q \in DOMAIN first_created \cup paths |->
                       IF q \in paths
                       THEN [at_poll |-> Seen(first_created, q,
                                              ses.sessions[created(q)].session_created).cached]
                            @@ Seen(first_created, q, ses.sessions[created(q)].session_created)
                       ELSE first_created[q]]
            /\ UNCHANGED <<service_vars, merge_env, fsm_vars, probe_vars, cls_vars, fetch_vars, start_vars,
                           connection_menu_items, auth_launched, tray_running, auth_streak,
                           auth_reentry, last_fetch>>

\* tray_icon_update_timers(tray, bus).  Before the first tick timer_labels
\* is NULL and the call returns; after it session_list is called, and the
\* sessions listed Connected whose record the last tick found Connected
\* have their start time looked up.
UpdateTimers ==
    IF merge_out = <<>>
    THEN /\ timer_calls' = <<>>
         /\ UNCHANGED <<cleanup_vars, cmd_vars, bw_vars, merge_vars, fsm_vars, probe_vars,
                        cls_vars, fetch_vars, start_vars, tray_vars>>
    ELSE
    /\ timer_calls' = << [method |-> "FetchAvailableSessions", path |-> NullPath] >>
    /\ \E ses \in PollSessionResults :
        LET labelled == RecordPaths({ CONN_STATE_CONNECTED })
            hits == { j \in 1..Len(ses.sessions) :
                        /\ ses.sessions[j].state = SESSION_STATE_CONNECTED
                        /\ ses.sessions[j].session_path \in labelled }
            paths == { ses.sessions[j].session_path : j \in hits }
            created(q) == (CHOOSE j \in hits : ses.sessions[j].session_path = q)
        IN  /\ session_timings' =
                   [q \in DOMAIN session_timings \cup paths |->
                       IF q \in paths
                       THEN get_session_start_time(session_timings, q,
                                ses.sessions[created(q)].session_created).timings[q]
                       ELSE session_timings[q]]
            /\ first_created' =
                   [q \in DOMAIN first_created |->
                       IF q \in paths
                       THEN Seen(first_created, q, ses.sessions[created(q)].session_created)
                       ELSE first_created[q]]
    /\ UNCHANGED <<cleanup_vars, cmd_vars, bw_vars, merge_env, merge_out, fsm_vars, probe_vars,
                   cls_vars, fetch_vars, start_vars, connection_menu_items, auth_launched,
                   tray_running, auth_streak, auth_reentry, last_fetch>>

\* disconnect_callback on the menu item of a record with a session:
\* session_disconnect fails, or succeeds and the timing entry is removed.
DisconnectCallback ==
    \E session_path \in RecordPaths(ConnectionState) : \E r \in { -5, 0 } :
        /\ session_timings' = IF r < 0 THEN session_timings
                              ELSE remove_session_timing(session_timings, session_path)
        /\ first_created' = IF r < 0 THEN first_created
                            ELSE [first_created EXCEPT ![session_path].dropped = TRUE]
        /\ UNCHANGED <<service_vars, merge_env, merge_out, fsm_vars, probe_vars, cls_vars, fetch_vars,
                       start_vars, connection_menu_items, auth_launched, tray_running,
                       auth_streak, auth_reentry, last_fetch>>

NextPoll ==
    \/ PollTimings
    \/ UpdateTimers
    \/ DisconnectCallback

(***************************************************************************)
(* dbus/session_client.c: session_start.  Its argument env is the backend  *)
(* and the bus as they answer the call: backend, the live sessions in the  *)
(* order FetchAvailableSessions lists them; unnamed, the session paths     *)
(* whose config_name cannot be read; config_name, the name read for        *)
(* config_path (NullName: not readable); list_r, disconnect_r, connect_r,  *)
(* what the FetchAvailableSessions, Disconnect and Connect calls return;   *)
(* new_tunnel, what NewTunnel returns and whether its reply holds a path.  *)
(***************************************************************************)
EIO == 5

\* The path of the session NewTunnel creates.
NewSessionPath == "s3"

\* One method call on the session manager or on a session.
StartCall(method, path) == [method |-> method, path |-> path]

\* The sessions as session_list hands them over: none when the call fails.
listed_sessions(env) ==
    IF env.list_r < 0 THEN <<>>
    ELSE [i \in 1..Len(env.backend) |->
             [session_path |-> env.backend[i].session_path,
              config_name |-> IF env.backend[i].session_path \in env.unnamed THEN NullName
                              ELSE env.backend[i].config_name]]

\* disconnect_existing_sessions(bus, config_path): the calls it issues, in
\* order, and the session paths whose Disconnect succeeded.
disconnect_existing_sessions(env) ==
    IF env.config_name = NullName THEN [calls |-> <<>>, disconnected |-> {}]
    ELSE LET sessions == listed_sessions(env)
             fetch == << StartCall("FetchAvailableSessions", NullPath) >>
             same == SelectSeq(sessions, LAMBDA x : /\ x.config_name # NullName
                                                    /\ x.config_name = env.config_name)
         IN  [calls |-> fetch \o [i \in 1..Len(same) |->
                                     StartCall("Disconnect", same[i].session_path)],
              disconnected |-> IF env.disconnect_r < 0 THEN {}
                               ELSE { same[i].session_path : i \in 1..Len(same) }]

\* session_start that creates the tunnel before it disconnects.
session_start_tunnel_first(env) ==
    LET d == disconnect_existing_sessions(env)
        live == { env.backend[i].session_path : i \in 1..Len(env.backend) } \ d.disconnected
        created == << StartCall("NewTunnel", NullPath) >> \o d.calls
        connected == Append(created, StartCall("Connect", NewSessionPath))
    IN  IF env.new_tunnel.r < 0
        THEN [r |-> env.new_tunnel.r, session_path |-> NullPath, calls |-> created, live |-> live]
        ELSE IF ~env.new_tunnel.has_path
        THEN [r |-> -EIO, session_path |-> NullPath, calls |-> created,
              live |-> live \cup { NewSessionPath }]
        ELSE [r |-> IF env.connect_r < 0 THEN env.connect_r ELSE 0,
              session_path |-> NewSessionPath, calls |-> connected,
              live |-> live \cup { NewSessionPath }]

\* session_start(bus, config_path, &session_path): the value returned,
\* *session_path, the calls issued in order and the sessions live on the
\* backend after the call.
session_start(env) ==
    LET d == disconnect_existing_sessions(env)
        live == { env.backend[i].session_path : i \in 1..Len(env.backend) } \ d.disconnected
        created == Append(d.calls, StartCall("NewTunnel", NullPath))
        connected == Append(created, StartCall("Connect", NewSessionPath))
    IN  IF env.new_tunnel.r < 0
        THEN [r |-> env.new_tunnel.r, session_path |-> NullPath, calls |-> created, live |-> live]
        ELSE IF ~env.new_tunnel.has_path
        THEN [r |-> -EIO, session_path |-> NullPath, calls |-> created,
              live |-> live \cup { NewSessionPath }]
        ELSE [r |-> IF env.connect_r < 0 THEN env.connect_r ELSE 0,
              session_path |-> NewSessionPath, calls |-> connected,
              live |-> live \cup { NewSessionPath }]

\* The live sessions of a backend: s1 was started from the configuration
\* named "A", s2 from that one or from "B".
StartBackends ==
    { ss \in SeqsUpTo([session_path : SessionPaths, config_name : { "A", "B" }], MaxSessions) :
        /\ \A i, j \in 1..Len(ss) : i # j => ss[i].session_path # ss[j].session_path
        /\ \A i \in 1..Len(ss) : ss[i].session_path = "s1" => ss[i].config_name = "A" }

StartEnv ==
    [ backend : StartBackends,
      unnamed : SUBSET SessionPaths,
      config_name : { "A", NullName },
      list_r : { 0, -EIO },
      disconnect_r : { 0, -EIO },
      new_tunnel : { [r |-> -EIO, has_path |-> FALSE], [r |-> 0, has_path |-> FALSE],
                     [r |-> 0, has_path |-> TRUE] },
      connect_r : { 0, -EIO } ]

InitStart ==
    /\ timer_calls = <<>>
    /\ bw_hist = <<>>
    /\ bw_out = <<>>
    /\ monitor = <<>>
    /\ cmd_out = <<>>
    /\ cleanup_out = <<>>
    /\ cleanup_env = <<>>
    /\ start_env \in StartEnv
    /\ start_out = <<>>
    /\ fsm = NullFsm
    /\ fsm_hist = <<>>
    /\ fsm_buttons = <<>>
    /\ probe_env = NoBus
    /\ probe_out = <<>>
    /\ cls_env = NoSession
    /\ cls_out = <<>>
    /\ connection_menu_items = <<>>
    /\ auth_launched = {}
    /\ session_timings = <<>>
    /\ tray_running = TRUE
    /\ auth_streak = NoStreak
    /\ auth_reentry = NoReentry
    /\ last_fetch = "none"
    /\ fetch_env = <<>>
    /\ fetch_out = <<>>
    /\ merge_env = <<>>
    /\ merge_out = <<>>
    /\ first_created = <<>>

\* One call of session_start.
SessionStartCall ==
    /\ start_out = <<>>
    /\ \E o \in { session_start(start_env) } : start_out' = << o >>
    /\ UNCHANGED <<service_vars, start_env, fsm_vars, probe_vars, cls_vars, tray_vars, fetch_vars, merge_vars>>

NextStart == SessionStartCall

(***************************************************************************)
(* dbus/session_client.c: session_cleanup_all.  Its argument env is the    *)
(* bus as it answers the call: bus_ok, whether the bus and both output     *)
(* pointers are given; backend, the session paths FetchAvailableSessions   *)
(* lists, in order; list_r, what session_list returns; disconnect_r, what  *)
(* the Disconnect call on each path returns.                               *)
(***************************************************************************)
\* The loop over the listed sessions that stops at the first Disconnect
\* that fails.
RECURSIVE cleanup_loop_stop_at_failure(_, _, _, _, _)
cleanup_loop_stop_at_failure(env, sessions, i, cleaned, calls) ==
    IF i > Len(sessions) THEN [cleaned |-> cleaned, calls |-> calls]
    ELSE IF env.disconnect_r[sessions[i]] >= 0
    THEN cleanup_loop_stop_at_failure(env, sessions, i + 1, cleaned + 1,
                                      Append(calls, StartCall("Disconnect", sessions[i])))
    ELSE [cleaned |-> cleaned, calls |-> Append(calls, StartCall("Disconnect", sessions[i]))]

\* The loop over the listed sessions: one session_disconnect each, counted
\* in *out_cleaned when it returns r >= 0.
RECURSIVE cleanup_loop(_, _, _, _, _)
cleanup_loop(env, sessions, i, cleaned, calls) ==
    IF i > Len(sessions) THEN [cleaned |-> cleaned, calls |-> calls]
    ELSE cleanup_loop(env, sessions, i + 1,
                      IF env.disconnect_r[sessions[i]] >= 0 THEN cleaned + 1 ELSE cleaned,
                      Append(calls, StartCall("Disconnect", sessions[i])))

\* session_cleanup_all(bus, &total, &cleaned): the value returned, the two
\* counts and the calls issued, in order.  With an argument missing the
\* counts are not written.
session_cleanup_all(env) ==
    IF ~env.bus_ok THEN [r |-> -1, written |-> FALSE, total |-> 0, cleaned |-> 0, calls |-> <<>>]
    ELSE LET fetch == << StartCall("FetchAvailableSessions", NullPath) >>
         IN  IF env.list_r < 0 \/ env.backend = <<>>
             THEN [r |-> 0, written |-> TRUE, total |-> 0, cleaned |-> 0, calls |-> fetch]
             ELSE LET l == cleanup_loop(env, env.backend, 1, 0, fetch)
                  IN  [r |-> 0, written |-> TRUE, total |-> Len(env.backend),
                       cleaned |-> l.cleaned, calls |-> l.calls]

\* The session paths of a backend with up to three live sessions.
CleanupPaths == SessionPaths \cup { NewSessionPath }

CleanupEnv ==
    [ bus_ok : BOOLEAN,
      backend : { ss \in SeqsUpTo(CleanupPaths, Cardinality(CleanupPaths)) :
                    \A i, j \in 1..Len(ss) : i # j => ss[i] # ss[j] },
      list_r : { 0, -EIO },
      disconnect_r : [CleanupPaths -> { 0, -EIO }] ]

InitCleanup ==
    /\ timer_calls = <<>>
    /\ bw_hist = <<>>
    /\ bw_out = <<>>
    /\ monitor = <<>>
    /\ cmd_out = <<>>
    /\ cleanup_out = <<>>
    /\ cleanup_env \in CleanupEnv
    /\ start_env = <<>>
    /\ start_out = <<>>
    /\ fsm = NullFsm
    /\ fsm_hist = <<>>
    /\ fsm_buttons = <<>>
    /\ probe_env = NoBus
    /\ probe_out = <<>>
    /\ cls_env = NoSession
    /\ cls_out = <<>>
    /\ connection_menu_items = <<>>
    /\ auth_launched = {}
    /\ session_timings = <<>>
    /\ tray_running = TRUE
    /\ auth_streak = NoStreak
    /\ auth_reentry = NoReentry
    /\ last_fetch = "none"
    /\ fetch_env = <<>>
    /\ fetch_out = <<>>
    /\ merge_env = <<>>
    /\ merge_out = <<>>
    /\ first_created = <<>>

\* One call of session_cleanup_all.
SessionCleanupAllCall ==
    /\ cleanup_out = <<>>
    /\ \E o \in { session_cleanup_all(cleanup_env) } : cleanup_out' = << o >>
    /\ UNCHANGED <<cleanup_env, cmd_vars, bw_vars, timer_vars, fsm_vars, probe_vars, cls_vars, tray_vars, client_vars>>

NextCleanup == SessionCleanupAllCall

(***************************************************************************)
(* tray.c: the command handlers of a connection's menu items               *)
(* (connect_config_callback, disconnect_callback, pause_callback,          *)
(* resume_callback), run between reconciliation ticks on a bus that lists  *)
(* the configuration c2, named "A", and at most the session s1.            *)
(***************************************************************************)
\* disconnect_callback that drops the timing entry whatever
\* session_disconnect returned.
disconnect_callback_drop_always(timings, session_path, r) ==
    remove_session_timing(timings, session_path)

\* disconnect_callback(item, data) with data->session_path given and r the
\* value session_disconnect returned: session_timings after the call.
disconnect_callback(timings, session_path, r) ==
    IF r < 0 THEN timings ELSE remove_session_timing(timings, session_path)

\* The record of a handler run in cmd_out.
CommandRun(command, r) ==
    << [command |-> command, r |-> r, reported |-> r < 0,
        seq |-> IF cmd_out = <<>> THEN 0 ELSE 1 - cmd_out[1].seq] >>

\* The session paths the callback data of the menu items hold.
CallbackSessionPaths ==
    { connection_menu_items[c].session_path : c \in DOMAIN connection_menu_items } \ { NullPath }

InitCommand ==
    /\ timer_calls = <<>>
    /\ bw_hist = <<>>
    /\ bw_out = <<>>
    /\ monitor = <<>>
    /\ cmd_out = <<>>
    /\ cleanup_out = <<>>
    /\ cleanup_env = <<>>
    /\ start_env = <<>>
    /\ start_out = <<>>
    /\ fsm = NullFsm
    /\ fsm_hist = <<>>
    /\ fsm_buttons = <<>>
    /\ probe_env = NoBus
    /\ probe_out = <<>>
    /\ cls_env = NoSession
    /\ cls_out = <<>>
    /\ connection_menu_items = <<>>
    /\ auth_launched = {}
    /\ session_timings = <<>>
    /\ tray_running = TRUE
    /\ auth_streak = NoStreak
    /\ auth_reentry = NoReentry
    /\ last_fetch = "none"
    /\ fetch_env = <<>>
    /\ fetch_out = <<>>
    /\ merge_env = <<>>
    /\ merge_out = <<>>
    /\ first_created = <<>>

\* One reconciliation tick of tray_icon_update_sessions.
CommandTick ==
    /\ tray_running
    /\ \E cfg \in { [r |-> -5, configs |-> <<>>], [r |-> 0, configs |-> << ConfigOrder[2] >>] } :
       \E ses \in IF cfg.r < 0 THEN { [r |-> -5, sessions |-> <<>>] }
                  ELSE { [r |-> 0, sessions |-> <<>>] } \cup
                       { [r |-> 0, sessions |-> << s >>] : s \in { s \in Sessions \cup PollSessions :
                                                                   s.session_path = "s1" } } :
       \E m \in merge_connections_data(cfg, ses, session_timings) :
       \E t \in update_or_create([items |-> connection_menu_items,
                                  auth_launched |-> auth_launched,
                                  calls |-> <<>>, returned |-> TRUE],
                                 m.connections, 1) :
         /\ session_timings' = m.timings
         /\ tray_running' = t.returned
         /\ IF t.returned
            THEN /\ connection_menu_items' =
                      [c \in { c \in DOMAIN t.items :
                                 \E i \in 1..Len(m.connections) :
                                     m.connections[i].config_path = c } |-> t.items[c]]
                 /\ auth_launched' = cleanup_auth_launched(t.auth_launched, m)
            ELSE /\ connection_menu_items' = t.items
                 /\ auth_launched' = t.auth_launched
         /\ UNCHANGED <<cmd_out, cleanup_vars, bw_vars, timer_vars, fsm_vars, probe_vars, cls_vars, client_vars,
                        auth_streak, auth_reentry, last_fetch>>

\* connect_config_callback on the menu item of a configuration: one call of
\* session_start, whose failure is logged.
ConnectCommand ==
    /\ tray_running
    /\ \E c \in DOMAIN connection_menu_items : \E r \in { session_start(e).r : e \in StartEnv } :
        cmd_out' = CommandRun("connect", r)
    /\ UNCHANGED <<cleanup_vars, bw_vars, timer_vars, fsm_vars, probe_vars, cls_vars, tray_vars, client_vars>>

\* disconnect_callback on the menu item of a record with a session.
DisconnectCommand ==
    /\ tray_running
    /\ \E session_path \in CallbackSessionPaths : \E r \in { -EIO, 0 } :
        /\ cmd_out' = CommandRun("disconnect", r)
        /\ session_timings' = disconnect_callback(session_timings, session_path, r)
    /\ UNCHANGED <<cleanup_vars, bw_vars, timer_vars, fsm_vars, probe_vars, cls_vars, client_vars,
                   connection_menu_items, auth_launched, tray_running, auth_streak,
                   auth_reentry, last_fetch>>

\* pause_callback: one call of session_pause, whose failure is logged.
PauseCommand ==
    /\ tray_running
    /\ \E session_path \in CallbackSessionPaths : \E r \in { -EIO, 0 } :
        cmd_out' = CommandRun("pause", r)
    /\ UNCHANGED <<cleanup_vars, bw_vars, timer_vars, fsm_vars, probe_vars, cls_vars, tray_vars, client_vars>>

\* resume_callback: one call of session_resume, whose failure is logged.
ResumeCommand ==
    /\ tray_running
    /\ \E session_path \in CallbackSessionPaths : \E r \in { -EIO, 0 } :
        cmd_out' = CommandRun("resume", r)
    /\ UNCHANGED <<cleanup_vars, bw_vars, timer_vars, fsm_vars, probe_vars, cls_vars, tray_vars, client_vars>>

NextCommand ==
    \/ CommandTick
    \/ ConnectCommand
    \/ DisconnectCommand
    \/ PauseCommand
    \/ ResumeCommand

(***************************************************************************)
(* monitoring/bandwidth_monitor.c.  A sample is its timestamp and its byte *)
(* counters; the packet, error and drop counters are copied along with     *)
(* them and are left out.  The counters are unsigned and wrap at           *)
(* CounterModulus, which stands for 2^64.  A rate, the quotient of a       *)
(* counter difference converted to double by a time difference, is kept as *)
(* that numerator and that denominator.                                    *)
(***************************************************************************)
STATS_SOURCE_DBUS == 0
STATS_SOURCE_SYSFS == 1
STATS_SOURCE_AUTO == 2

EAGAIN == 11
ENOTSUP == 95

CounterModulus == 8

\* a - b on uint64_t counters.
CounterDiff(a, b) == (a - b) % CounterModulus

\* An element of the buffer as calloc and memset leave it.
ZeroSample == [timestamp |-> 0, bytes_in |-> 0, bytes_out |-> 0]

\* bandwidth_monitor_create(session_path, device_name, source, buffer_size)
\* with the two names given or NULL; a buffer_size of 0 stands for 60.
bandwidth_monitor_create(has_session_path, has_device_name, source, buffer_size) ==
    [has_session_path |-> has_session_path,
     has_device_name |-> has_device_name,
     source |-> source,
     samples |-> [k \in 0..(buffer_size - 1) |-> ZeroSample],
     buffer_size |-> buffer_size,
     sample_count |-> 0,
     write_index |-> 0,
     start_time |-> 0,
     baseline |-> ZeroSample,
     has_baseline |-> FALSE]

\* add_sample that takes every sample as the baseline.
add_sample_rebase(mon, sample) ==
    [mon EXCEPT
        !.samples[mon.write_index] = sample,
        !.write_index = (mon.write_index + 1) % mon.buffer_size,
        !.sample_count = IF @ < mon.buffer_size THEN @ + 1 ELSE @,
        !.start_time = IF mon.sample_count = 0 THEN sample.timestamp ELSE @,
        !.baseline = sample,
        !.has_baseline = TRUE]

\* add_sample that stops storing once the buffer is full.
add_sample_keep_oldest(mon, sample) ==
    IF mon.sample_count = mon.buffer_size THEN mon
    ELSE [mon EXCEPT
            !.samples[mon.write_index] = sample,
            !.write_index = (mon.write_index + 1) % mon.buffer_size,
            !.sample_count = @ + 1,
            !.start_time = IF mon.sample_count = 0 THEN sample.timestamp ELSE @,
            !.baseline = IF mon.has_baseline THEN @ ELSE sample,
            !.has_baseline = TRUE]

\* add_sample(monitor, sample).  start_time is set when the count is 1
\* after the increment: on the first sample, and on every sample of a
\* monitor whose buffer holds one element.
add_sample(mon, sample) ==
    [mon EXCEPT
        !.samples[mon.write_index] = sample,
        !.write_index = (mon.write_index + 1) % mon.buffer_size,
        !.sample_count = IF @ < mon.buffer_size THEN @ + 1 ELSE @,
        !.start_time = IF (IF mon.sample_count < mon.buffer_size THEN mon.sample_count + 1
                           ELSE mon.sample_count) = 1
                       THEN sample.timestamp ELSE @,
        !.baseline = IF mon.has_baseline THEN @ ELSE sample,
        !.has_baseline = TRUE]

\* The outcome of bandwidth_monitor_update: the value returned, the sources
\* read, in order, and the monitor after the call.
UpdateResult(r, reads, mon) == [op |-> "update", r |-> r, reads |-> reads, monitor |-> mon]

\* bandwidth_monitor_update that reads the device counters after a failed
\* read of the session statistics whatever the source mode.
bandwidth_monitor_update_always_falls_back(mon, env) ==
    LET dbus_tried == /\ mon.source \in { STATS_SOURCE_DBUS, STATS_SOURCE_AUTO }
                      /\ env.bus /\ mon.has_session_path
        tried == IF dbus_tried THEN << "dbus" >> ELSE <<>>
    IN  IF dbus_tried /\ env.dbus_r >= 0
        THEN UpdateResult(0, tried, add_sample(mon, env.sample))
        ELSE IF mon.has_device_name
        THEN IF env.sysfs_r >= 0
             THEN UpdateResult(0, Append(tried, "sysfs"), add_sample(mon, env.sample))
             ELSE UpdateResult(env.sysfs_r, Append(tried, "sysfs"), mon)
        ELSE UpdateResult(-ENOTSUP, tried, mon)

\* bandwidth_monitor_update that stores the local sample before it looks
\* at what the device counters' reader returned.
bandwidth_monitor_update_stores_on_error(mon, env) ==
    LET dbus_tried == /\ mon.source \in { STATS_SOURCE_DBUS, STATS_SOURCE_AUTO }
                      /\ env.bus /\ mon.has_session_path
        tried == IF dbus_tried THEN << "dbus" >> ELSE <<>>
    IN  IF dbus_tried /\ env.dbus_r >= 0
        THEN UpdateResult(0, tried, add_sample(mon, env.sample))
        ELSE IF dbus_tried /\ mon.source = STATS_SOURCE_DBUS
        THEN UpdateResult(env.dbus_r, tried, mon)
        ELSE IF /\ mon.source \in { STATS_SOURCE_SYSFS, STATS_SOURCE_AUTO }
                /\ mon.has_device_name
        THEN UpdateResult(IF env.sysfs_r >= 0 THEN 0 ELSE env.sysfs_r,
                          Append(tried, "sysfs"), add_sample(mon, env.sample))
        ELSE UpdateResult(-ENOTSUP, tried, mon)

\* bandwidth_monitor_update(monitor, bus) on the answers env of the two
\* sources: bus, whether a bus is given; dbus_r and sysfs_r, what
\* read_dbus_stats and read_sysfs_stats return; sample, what the one that
\* succeeds leaves in the local sample.
bandwidth_monitor_update(mon, env) ==
    LET dbus_tried == /\ mon.source \in { STATS_SOURCE_DBUS, STATS_SOURCE_AUTO }
                      /\ env.bus /\ mon.has_session_path
        tried == IF dbus_tried THEN << "dbus" >> ELSE <<>>
    IN  IF dbus_tried /\ env.dbus_r >= 0
        THEN UpdateResult(0, tried, add_sample(mon, env.sample))
        ELSE IF dbus_tried /\ mon.source = STATS_SOURCE_DBUS
        THEN UpdateResult(env.dbus_r, tried, mon)
        ELSE IF /\ mon.source \in { STATS_SOURCE_SYSFS, STATS_SOURCE_AUTO }
                /\ mon.has_device_name
        THEN IF env.sysfs_r >= 0
             THEN UpdateResult(0, Append(tried, "sysfs"), add_sample(mon, env.sample))
             ELSE UpdateResult(env.sysfs_r, Append(tried, "sysfs"), mon)
        ELSE UpdateResult(-ENOTSUP, tried, mon)

\* The index of the element written last, and of the one written before it.
IndexBefore(mon, index) == IF index = 0 THEN mon.buffer_size - 1 ELSE index - 1

\* A BandwidthRate; memset leaves it with both rates 0.0.
BandwidthRate(download, upload, total_downloaded, total_uploaded) ==
    [download_rate_bps |-> download, upload_rate_bps |-> upload,
     total_downloaded |-> total_downloaded, total_uploaded |-> total_uploaded]

\* The outcome of bandwidth_monitor_get_rate on latest and previous with
\* the divisor time_diff.
RateResult(mon, latest, previous, time_diff) ==
    [op |-> "get_rate", r |-> 0,
     rate |-> BandwidthRate(
         [num |-> CounterDiff(latest.bytes_in, previous.bytes_in), den |-> time_diff],
         [num |-> CounterDiff(latest.bytes_out, previous.bytes_out), den |-> time_diff],
         IF mon.has_baseline THEN CounterDiff(latest.bytes_in, mon.baseline.bytes_in)
         ELSE latest.bytes_in,
         IF mon.has_baseline THEN CounterDiff(latest.bytes_out, mon.baseline.bytes_out)
         ELSE latest.bytes_out)]

NotEnoughData ==
    [op |-> "get_rate", r |-> -EAGAIN,
     rate |-> BandwidthRate([num |-> 0, den |-> 1], [num |-> 0, den |-> 1], 0, 0)]

\* bandwidth_monitor_get_rate that takes the element below the latest
\* without wrapping to the end of the buffer.
bandwidth_monitor_get_rate_unwrapped(mon) ==
    IF mon.sample_count < 2 THEN NotEnoughData
    ELSE LET latest_idx == IndexBefore(mon, mon.write_index)
             latest == mon.samples[latest_idx]
             previous == mon.samples[IF latest_idx = 0 THEN 1 ELSE latest_idx - 1]
             time_diff == latest.timestamp - previous.timestamp
         IN  RateResult(mon, latest, previous, IF time_diff <= 0 THEN 1 ELSE time_diff)

\* bandwidth_monitor_get_rate that clamps a negative time difference only.
bandwidth_monitor_get_rate_negative_only(mon) ==
    IF mon.sample_count < 2 THEN NotEnoughData
    ELSE LET latest_idx == IndexBefore(mon, mon.write_index)
             latest == mon.samples[latest_idx]
             previous == mon.samples[IndexBefore(mon, latest_idx)]
             time_diff == latest.timestamp - previous.timestamp
         IN  RateResult(mon, latest, previous, IF time_diff < 0 THEN 1 ELSE time_diff)

\* bandwidth_monitor_get_rate(monitor, &rate).
bandwidth_monitor_get_rate(mon) ==
    IF mon.sample_count < 2 THEN NotEnoughData
    ELSE LET latest_idx == IndexBefore(mon, mon.write_index)
             latest == mon.samples[latest_idx]
             previous == mon.samples[IndexBefore(mon, latest_idx)]
             time_diff == latest.timestamp - previous.timestamp
         IN  RateResult(mon, latest, previous, IF time_diff <= 0 THEN 1 ELSE time_diff)

\* bandwidth_monitor_get_latest_sample(monitor, &sample).
bandwidth_monitor_get_latest_sample(mon) ==
    IF mon.sample_count = 0 THEN [op |-> "get_latest_sample", r |-> -EAGAIN]
    ELSE [op |-> "get_latest_sample", r |-> 0,
          sample |-> mon.samples[IndexBefore(mon, mon.write_index)]]

\* bandwidth_monitor_get_samples that walks the buffer from its start.
bandwidth_monitor_get_samples_oldest_first(mon, max_samples) ==
    LET count == IF max_samples < mon.sample_count THEN max_samples ELSE mon.sample_count
    IN  [op |-> "get_samples", r |-> 0, max_samples |-> max_samples, count |-> count,
         samples |-> [k \in 1..count |-> mon.samples[k - 1]]]

\* bandwidth_monitor_get_samples(monitor, samples, max_samples, &count):
\* samples[i] for i < *count is element k = i + 1 of the sequence.
bandwidth_monitor_get_samples(mon, max_samples) ==
    LET count == IF max_samples < mon.sample_count THEN max_samples ELSE mon.sample_count
        idx(i) == IF i < mon.write_index THEN mon.write_index - 1 - i
                  ELSE mon.buffer_size - (i - mon.write_index) - 1
    IN  [op |-> "get_samples", r |-> 0, max_samples |-> max_samples, count |-> count,
         samples |-> [k \in 1..count |-> mon.samples[idx(k - 1)]]]

\* bandwidth_monitor_reset(monitor).
bandwidth_monitor_reset(mon) ==
    [mon EXCEPT
        !.sample_count = 0,
        !.write_index = 0,
        !.has_baseline = FALSE,
        !.baseline = ZeroSample,
        !.samples = [k \in 0..(mon.buffer_size - 1) |-> ZeroSample]]

\* bandwidth_monitor_get_start_time(monitor), the monitor given.
bandwidth_monitor_get_start_time(mon) == mon.start_time

MaxCapacity == 3
MaxInserts == 5

\* The samples the sources hand over: two taken in the same second, and
\* one taken later whose bytes_in counter is below an earlier one.
BandwidthSamples ==
    { [timestamp |-> 1, bytes_in |-> 1, bytes_out |-> 0],
      [timestamp |-> 1, bytes_in |-> 3, bytes_out |-> 2],
      [timestamp |-> 3, bytes_in |-> 2, bytes_out |-> 5] }

\* A monitor as the dashboard creates it: Auto mode, with the session path
\* and the device name of the session.
InitBandwidth ==
    /\ timer_calls = <<>>
    /\ bw_hist = [first |-> <<>>, inserted |-> <<>>, total |-> 0]
    /\ bw_out = <<>>
    /\ monitor \in { bandwidth_monitor_create(TRUE, TRUE, STATS_SOURCE_AUTO, n) :
                       n \in 1..MaxCapacity }
    /\ cmd_out = <<>>
    /\ cleanup_out = <<>>
    /\ cleanup_env = <<>>
    /\ start_env = <<>>
    /\ start_out = <<>>
    /\ fsm = NullFsm
    /\ fsm_hist = <<>>
    /\ fsm_buttons = <<>>
    /\ probe_env = NoBus
    /\ probe_out = <<>>
    /\ cls_env = NoSession
    /\ cls_out = <<>>
    /\ connection_menu_items = <<>>
    /\ auth_launched = {}
    /\ session_timings = <<>>
    /\ tray_running = TRUE
    /\ auth_streak = NoStreak
    /\ auth_reentry = NoReentry
    /\ last_fetch = "none"
    /\ fetch_env = <<>>
    /\ fetch_out = <<>>
    /\ merge_env = <<>>
    /\ merge_out = <<>>
    /\ first_created = <<>>

\* One call of bandwidth_monitor_update.
Update ==
    /\ bw_hist.total < MaxInserts
    /\ \E env \in [ bus : BOOLEAN, dbus_r : { 0, -EIO }, sysfs_r : { 0, -ENOENT },
                    sample : BandwidthSamples ] :
       \E o \in { bandwidth_monitor_update(monitor, env) } :
        /\ monitor' = o.monitor
        /\ bw_out' = << [op |-> o.op, r |-> o.r, reads |-> o.reads, bus |-> env.bus,
                         dbus_r |-> env.dbus_r, sysfs_r |-> env.sysfs_r] >>
        /\ bw_hist' =
              IF o.r < 0 THEN bw_hist
              ELSE [first |-> IF bw_hist.first = <<>> THEN << env.sample >>
                              ELSE bw_hist.first,
                    inserted |-> Append(bw_hist.inserted, env.sample),
                    total |-> bw_hist.total + 1]
    /\ UNCHANGED <<cleanup_vars, cmd_vars, timer_vars, fsm_vars, probe_vars, cls_vars, tray_vars, client_vars>>

\* One call of bandwidth_monitor_get_rate.
GetRate ==
    /\ bw_out' = << bandwidth_monitor_get_rate(monitor) >>
    /\ UNCHANGED <<monitor, bw_hist, cleanup_vars, cmd_vars, timer_vars, fsm_vars, probe_vars, cls_vars,
                   tray_vars, client_vars>>

\* One call of bandwidth_monitor_get_latest_sample.
GetLatestSample ==
    /\ bw_out' = << bandwidth_monitor_get_latest_sample(monitor) >>
    /\ UNCHANGED <<monitor, bw_hist, cleanup_vars, cmd_vars, timer_vars, fsm_vars, probe_vars, cls_vars,
                   tray_vars, client_vars>>

\* One call of bandwidth_monitor_get_samples.
GetSamples ==
    /\ \E max_samples \in 0..(MaxCapacity + 1) :
        bw_out' = << bandwidth_monitor_get_samples(monitor, max_samples) >>
    /\ UNCHANGED <<monitor, bw_hist, cleanup_vars, cmd_vars, timer_vars, fsm_vars, probe_vars, cls_vars,
                   tray_vars, client_vars>>

\* One call of bandwidth_monitor_reset.
Reset ==
    /\ monitor' = bandwidth_monitor_reset(monitor)
    /\ bw_out' = << [op |-> "reset", r |-> 0] >>
    /\ bw_hist' = [bw_hist EXCEPT !.inserted = <<>>]
    /\ UNCHANGED <<cleanup_vars, cmd_vars, timer_vars, fsm_vars, probe_vars, cls_vars, tray_vars, client_vars>>

\* One call of bandwidth_monitor_get_start_time.
GetStartTime ==
    /\ bw_out' = << [op |-> "get_start_time", r |-> 0,
                     start_time |-> bandwidth_monitor_get_start_time(monitor)] >>
    /\ UNCHANGED <<monitor, bw_hist, cleanup_vars, cmd_vars, timer_vars, fsm_vars, probe_vars, cls_vars,
                   tray_vars, client_vars>>

NextBandwidth ==
    \/ Update
    \/ GetRate
    \/ GetLatestSample
    \/ GetSamples
    \/ Reset
    \/ GetStartTime

\* A monitor of each source mode, created with and without a session path
\* and a device name, before its first update.
InitSource ==
    /\ timer_calls = <<>>
    /\ bw_hist = [first |-> <<>>, inserted |-> <<>>, total |-> 0]
    /\ bw_out = <<>>
    /\ monitor \in { bandwidth_monitor_create(s, d, source, n) :
                       s \in BOOLEAN, d \in BOOLEAN,
                       source \in { STATS_SOURCE_DBUS, STATS_SOURCE_SYSFS, STATS_SOURCE_AUTO },
                       n \in 1..MaxCapacity }
    /\ cmd_out = <<>>
    /\ cleanup_out = <<>>
    /\ cleanup_env = <<>>
    /\ start_env = <<>>
    /\ start_out = <<>>
    /\ fsm = NullFsm
    /\ fsm_hist = <<>>
    /\ fsm_buttons = <<>>
    /\ probe_env = NoBus
    /\ probe_out = <<>>
    /\ cls_env = NoSession
    /\ cls_out = <<>>
    /\ connection_menu_items = <<>>
    /\ auth_launched = {}
    /\ session_timings = <<>>
    /\ tray_running = TRUE
    /\ auth_streak = NoStreak
    /\ auth_reentry = NoReentry
    /\ last_fetch = "none"
    /\ fetch_env = <<>>
    /\ fetch_out = <<>>
    /\ merge_env = <<>>
    /\ merge_out = <<>>
    /\ first_created = <<>>

\* The first call of bandwidth_monitor_update on the monitor.
NextSource == bw_out = <<>> /\ Update

(***************************************************************************)
(* tray.c: the connection items and their FSMs over the reconciliation     *)
(* ticks, on a bus that lists the configurations c1 (named "B") and c2     *)
(* (named "A") or one of them, and at most the session s1 of c2, classified *)
(* in any of the seven states.  merge_out keeps the arrays                 *)
(* merge_connections_data returned on the last two ticks, the latest       *)
(* first.                                                                  *)
(***************************************************************************)
\* SessionState
SessionState == SESSION_STATE_DISCONNECTED .. SESSION_STATE_AUTH_REQUIRED

InitItems ==
    /\ timer_calls = <<>>
    /\ bw_hist = <<>>
    /\ bw_out = <<>>
    /\ monitor = <<>>
    /\ cmd_out = <<>>
    /\ cleanup_out = <<>>
    /\ cleanup_env = <<>>
    /\ start_env = <<>>
    /\ start_out = <<>>
    /\ fsm = NullFsm
    /\ fsm_hist = <<>>
    /\ fsm_buttons = <<>>
    /\ probe_env = NoBus
    /\ probe_out = <<>>
    /\ cls_env = NoSession
    /\ cls_out = <<>>
    /\ connection_menu_items = <<>>
    /\ auth_launched = {}
    /\ session_timings = <<>>
    /\ tray_running = TRUE
    /\ auth_streak = NoStreak
    /\ auth_reentry = NoReentry
    /\ last_fetch = "none"
    /\ fetch_env = <<>>
    /\ fetch_out = <<>>
    /\ merge_env = <<>>
    /\ merge_out = <<>>
    /\ first_created = <<>>

\* tray_icon_update_sessions(tray, bus): one reconciliation tick.
ItemsTick ==
    /\ tray_running
    /\ \E cfg \in { [r |-> -5, configs |-> <<>>] } \cup
                  { [r |-> 0, configs |-> [i \in 1..Len(q) |-> ConfigOrder[q[i]]]] :
                      q \in { << 1 >>, << 2 >>, << 1, 2 >> } } :
       \E ses \in IF cfg.r < 0 THEN { [r |-> -5, sessions |-> <<>>] }
                  ELSE { [r |-> 0, sessions |-> <<>>] } \cup
                       { [r |-> 0, sessions |-> << [session_path |-> "s1", config_name |-> "A",
                                                    state |-> state, session_created |-> 5] >>] :
                           state \in SessionState } :
       \E m \in merge_connections_data(cfg, ses, session_timings) :
       \E t \in update_or_create([items |-> connection_menu_items,
                                  auth_launched |-> auth_launched,
                                  calls |-> <<>>, returned |-> TRUE],
                                 m.connections, 1) :
         /\ merge_out' = IF merge_out = <<>> THEN << m >> ELSE << m, merge_out[1] >>
         /\ session_timings' = m.timings
         /\ tray_running' = t.returned
         /\ IF t.returned
            THEN /\ connection_menu_items' =
                      [c \in { c \in DOMAIN t.items :
                                 \E i \in 1..Len(m.connections) :
                                     m.connections[i].config_path = c } |-> t.items[c]]
                 /\ auth_launched' = cleanup_auth_launched(t.auth_launched, m)
            ELSE /\ connection_menu_items' = t.items
                 /\ auth_launched' = t.auth_launched
         /\ UNCHANGED <<cleanup_vars, cmd_vars, bw_vars, timer_vars, merge_env, fsm_vars, probe_vars,
                        cls_vars, fetch_vars, start_vars, auth_streak, auth_reentry, last_fetch,
                        first_created>>

NextItems == ItemsTick

(***************************************************************************)
(* The two paths that open the authentication URL of a session started by  *)
(* session_start: attention_required_handler (dbus/signal_handlers.c), run  *)
(* when the AttentionRequired signal of the session is dispatched, and the *)
(* launch of update_connection_menu_item on a reconciliation tick.         *)
(* cls_env is the bus as it answers for the started session; auth_streak    *)
(* counts, for the time the session has been waiting for authentication:   *)
(* ticks, the ticks that found it AuthRequired; opened, the times the      *)
(* browser was opened; signals, the signals handled.                       *)
(***************************************************************************)
\* attention_required_handler(m) on the signal sig: whether the browser was
\* opened.
attention_required_handler(sig) ==
    [opened |-> sig.read_r >= 0 /\ sig.type = 1 /\ description_is_url(sig.message)]

\* The answers of the bus for the started session: connecting, waiting for
\* the web authentication, connected, paused.
SignalSessionEnvs ==
    { [probe |-> [AuthPendingBus EXCEPT !.queue = <<>>],
       status |-> [ok |-> TRUE, major |-> 2, minor |-> 7, message |-> NullStr],
       connected_to |-> NoConnectedTo],
      [probe |-> AuthPendingBus,
       status |-> [ok |-> TRUE, major |-> 2, minor |-> 7, message |-> NullStr],
       connected_to |-> NoConnectedTo],
      [probe |-> [AuthPendingBus EXCEPT !.queue = <<>>],
       status |-> [ok |-> TRUE, major |-> 2, minor |-> 7, message |-> NullStr],
       connected_to |-> [ok |-> TRUE, protocol |-> Str(<<"u", "d", "p">>),
                         host |-> Str(<<"v", "p", "n">>), port |-> 1194]],
      [probe |-> [AuthPendingBus EXCEPT !.queue = <<>>],
       status |-> [ok |-> TRUE, major |-> 2, minor |-> 14, message |-> NullStr],
       connected_to |-> [ok |-> TRUE, protocol |-> Str(<<"u", "d", "p">>),
                         host |-> Str(<<"v", "p", "n">>), port |-> 1194]] }

\* The started session waits for the web authentication.
WaitsForAuth == cls_env.probe.queue # <<>>

\* No signal handled, no tick and no browser opened yet.
NoSignalStreak == [p \in { NewSessionPath } |-> [ticks |-> 0, opened |-> 0, signals |-> 0]]

InitSignal ==
    /\ timer_calls = <<>>
    /\ bw_hist = <<>>
    /\ bw_out = <<>>
    /\ monitor = <<>>
    /\ cmd_out = <<>>
    /\ cleanup_out = <<>>
    /\ cleanup_env = <<>>
    /\ start_env = <<>>
    /\ start_out = <<>>
    /\ fsm = NullFsm
    /\ fsm_hist = <<>>
    /\ fsm_buttons = <<>>
    /\ probe_env = NoBus
    /\ probe_out = <<>>
    /\ cls_env = NoSession
    /\ cls_out = <<>>
    /\ connection_menu_items = <<>>
    /\ auth_launched = {}
    /\ session_timings = <<>>
    /\ tray_running = TRUE
    /\ auth_streak = NoSignalStreak
    /\ auth_reentry = NoReentry
    /\ last_fetch = "none"
    /\ fetch_env = <<>>
    /\ fetch_out = <<>>
    /\ merge_env = <<>>
    /\ merge_out = <<>>
    /\ first_created = <<>>

\* connect_config_callback: session_start on a backend with no session,
\* once more after a failure; on success the AttentionRequired signal of the
\* new session is subscribed to.
SignalStart ==
    /\ tray_running
    /\ IF start_out = <<>> THEN TRUE ELSE start_out[1].r < 0
    /\ \E e \in { e \in StartEnv : e.backend = <<>> /\ e.unnamed = {} /\ e.list_r = 0
                                   /\ e.disconnect_r = 0 /\ e.config_name = "A" } :
       \E o \in { session_start(e) } :
        /\ start_out' = << o >>
        /\ cls_env' = CHOOSE s \in SignalSessionEnvs : s.probe.queue = <<>> /\ ~s.connected_to.ok
    /\ UNCHANGED <<cleanup_vars, cmd_vars, bw_vars, timer_vars, fsm_vars, probe_vars, cls_out,
                   tray_vars, fetch_vars, merge_vars, start_env>>

\* The backend moves the started session on: it asks for the web
\* authentication, goes back to connecting, or connects.
SessionMoves ==
    /\ start_out # <<>>
    /\ start_out[1].r = 0
    /\ \E s \in SignalSessionEnvs \ { cls_env } :
        /\ cls_env' = s
        /\ auth_streak' = IF WaitsForAuth THEN NoSignalStreak ELSE auth_streak
    /\ UNCHANGED <<cleanup_vars, cmd_vars, bw_vars, timer_vars, fsm_vars, probe_vars, cls_out,
                   connection_menu_items, auth_launched, session_timings, tray_running,
                   auth_reentry, last_fetch, client_vars>>

\* The AttentionRequired signal of the waiting session is dispatched to
\* attention_required_handler: read as (1, group, URL), as another type, or
\* not readable as "uus".
AttentionRequired ==
    /\ tray_running
    /\ start_out # <<>>
    /\ start_out[1].r = 0
    /\ WaitsForAuth
    /\ auth_streak[NewSessionPath].signals = 0
    /\ \E sig \in { [read_r |-> 0, type |-> 1, message |-> cls_env.probe.description],
                    [read_r |-> 0, type |-> 2, message |-> NullStr],
                    [read_r |-> -EIO, type |-> 0, message |-> NullStr] } :
       \E h \in { attention_required_handler(sig) } :
        auth_streak' = [auth_streak EXCEPT
                           ![NewSessionPath].signals = 1,
                           ![NewSessionPath].opened =
                               Min(@ + (IF h.opened THEN 1 ELSE 0), MaxCount)]
    /\ UNCHANGED <<cleanup_vars, cmd_vars, bw_vars, timer_vars, fsm_vars, probe_vars, cls_vars,
                   connection_menu_items, auth_launched, session_timings, tray_running,
                   auth_reentry, last_fetch, client_vars>>

\* tray_icon_update_sessions(tray, bus): one reconciliation tick on a bus
\* that lists the configuration c2, named "A", and the started session.
SignalTick ==
    /\ tray_running
    /\ \E cfg \in { [r |-> 0, configs |-> << ConfigOrder[2] >>] } :
       \E ses \in IF start_out = <<>> \/ start_out[1].r < 0
                  THEN { [r |-> 0, sessions |-> <<>>] }
                  ELSE { [r |-> 0, sessions |-> << [session_path |-> NewSessionPath,
                                                    config_name |-> "A", state |-> i.state,
                                                    session_created |-> 5] >>]
                         : i \in { i \in session_get_info(cls_env) : i.returned } } :
       \E m \in merge_connections_data(cfg, ses, session_timings) :
       \E t \in update_or_create([items |-> connection_menu_items,
                                  auth_launched |-> auth_launched,
                                  calls |-> <<>>, returned |-> TRUE],
                                 m.connections, 1) :
         /\ \A k \in 1..Len(t.calls) :
                [returned |-> t.returned, opened |-> t.calls[k].opened]
                    \in launch_auth_browser(cls_env)
         /\ session_timings' = m.timings
         /\ tray_running' = t.returned
         /\ auth_streak' =
                [auth_streak EXCEPT
                    ![NewSessionPath].ticks =
                        IF ObservedAuthRequired(m, NewSessionPath) THEN Min(@ + 1, MaxStreak) ELSE @,
                    ![NewSessionPath].opened =
                        Min(@ + Cardinality({ k \in 1..Len(t.calls) : t.calls[k].opened }),
                            MaxCount)]
         /\ IF t.returned
            THEN /\ connection_menu_items' =
                      [c \in { c \in DOMAIN t.items :
                                 \E i \in 1..Len(m.connections) :
                                     m.connections[i].config_path = c } |-> t.items[c]]
                 /\ auth_launched' = cleanup_auth_launched(t.auth_launched, m)
            ELSE /\ connection_menu_items' = t.items
                 /\ auth_launched' = t.auth_launched
         /\ UNCHANGED <<cleanup_vars, cmd_vars, bw_vars, timer_vars, fsm_vars, probe_vars, cls_vars,
                        client_vars, auth_reentry, last_fetch>>

NextSignal ==
    \/ SignalStart
    \/ SessionMoves
    \/ AttentionRequired
    \/ SignalTick

(***************************************************************************)
(* The two sources of an Auto monitor.  read_dbus_stats takes BYTES_IN and *)
(* BYTES_OUT of the session's statistics, the bytes of the transport;      *)
(* read_sysfs_stats takes rx_bytes and tx_bytes of the tunnel device, the  *)
(* bytes of the payload.  Each of the two grows with the traffic and never *)
(* falls.  In this specification bw_hist also holds the clock and the      *)
(* counters of the two sources: fields now, statistics and device.         *)
(***************************************************************************)
MaxClock == 3
MaxStored == 3

\* What read_dbus_stats and read_sysfs_stats leave in the local sample at
\* the time h.now.
read_dbus_stats(h) ==
    [timestamp |-> h.now, bytes_in |-> h.statistics.bytes_in,
     bytes_out |-> h.statistics.bytes_out]

read_sysfs_stats(h) ==
    [timestamp |-> h.now, bytes_in |-> h.device.bytes_in,
     bytes_out |-> h.device.bytes_out]

\* The source whose sample a call of bandwidth_monitor_update stores, if it
\* stores one: the last one it reads.
SourceStored(mon, bus, dbus_r, sysfs_r) ==
    LET reads == bandwidth_monitor_update(
                     mon, [bus |-> bus, dbus_r |-> dbus_r, sysfs_r |-> sysfs_r,
                           sample |-> ZeroSample]).reads
    IN  IF reads = <<>> THEN "none" ELSE reads[Len(reads)]

InitCounters ==
    /\ timer_calls = <<>>
    /\ bw_hist = [first |-> <<>>, inserted |-> <<>>, total |-> 0, now |-> 1, statistics |-> [bytes_in |-> 0, bytes_out |-> 0], device |-> [bytes_in |-> 0, bytes_out |-> 0]]
    /\ bw_out = <<>>
    /\ monitor \in { bandwidth_monitor_create(TRUE, TRUE, STATS_SOURCE_AUTO, n) : n \in 2..MaxCapacity }
    /\ cmd_out = <<>>
    /\ cleanup_out = <<>>
    /\ cleanup_env = <<>>
    /\ start_env = <<>>
    /\ start_out = <<>>
    /\ fsm = NullFsm
    /\ fsm_hist = <<>>
    /\ fsm_buttons = <<>>
    /\ probe_env = NoBus
    /\ probe_out = <<>>
    /\ cls_env = NoSession
    /\ cls_out = <<>>
    /\ connection_menu_items = <<>>
    /\ auth_launched = {}
    /\ session_timings = <<>>
    /\ tray_running = TRUE
    /\ auth_streak = NoStreak
    /\ auth_reentry = NoReentry
    /\ last_fetch = "none"
    /\ fetch_env = <<>>
    /\ fetch_out = <<>>
    /\ merge_env = <<>>
    /\ merge_out = <<>>
    /\ first_created = <<>>

\* A second passes: the tunnel carries payload in one direction or in none,
\* and the transport carries that payload and its own overhead.
Traffic ==
    /\ bw_hist.now < MaxClock
    /\ \E payload_in \in 0..1, payload_out \in 0..1, overhead \in 0..1 :
        /\ payload_in + payload_out <= 1
        /\ bw_hist.statistics.bytes_in + payload_in + overhead < CounterModulus
        /\ bw_hist.statistics.bytes_out + payload_out + overhead < CounterModulus
        /\ bw_hist' =
              [bw_hist EXCEPT
                  !.now = @ + 1,
                  !.statistics = [bytes_in |-> @.bytes_in + payload_in + overhead,
                                  bytes_out |-> @.bytes_out + payload_out + overhead],
                  !.device = [bytes_in |-> @.bytes_in + payload_in,
                              bytes_out |-> @.bytes_out + payload_out]]
    /\ UNCHANGED <<monitor, bw_out, cleanup_vars, cmd_vars, timer_vars, fsm_vars, probe_vars, cls_vars,
                   tray_vars, client_vars>>

\* One call of bandwidth_monitor_update on the counters as they stand: the
\* statistics call succeeds or fails, the device's files open or do not.
UpdateFromSources ==
    /\ bw_hist.total < MaxStored
    /\ \E bus \in { TRUE }, dbus_r \in { 0, -EIO }, sysfs_r \in { 0, -ENOENT } :
       \E sample \in { IF SourceStored(monitor, bus, dbus_r, sysfs_r) = "sysfs"
                       THEN read_sysfs_stats(bw_hist) ELSE read_dbus_stats(bw_hist) } :
       \E o \in { bandwidth_monitor_update(
                      monitor, [bus |-> bus, dbus_r |-> dbus_r, sysfs_r |-> sysfs_r,
                                sample |-> sample]) } :
        /\ monitor' = o.monitor
        /\ bw_out' = << [op |-> o.op, r |-> o.r, reads |-> o.reads, bus |-> bus,
                         dbus_r |-> dbus_r, sysfs_r |-> sysfs_r] >>
        /\ bw_hist' =
              IF o.r < 0 THEN bw_hist
              ELSE [bw_hist EXCEPT
                       !.first = IF @ = <<>> THEN << sample >> ELSE @,
                       !.inserted = Append(@, sample),
                       !.total = @ + 1]
    /\ UNCHANGED <<cleanup_vars, cmd_vars, timer_vars, fsm_vars, probe_vars, cls_vars, tray_vars, client_vars>>

\* One call of bandwidth_monitor_get_rate on the series of the two sources.
GetRateOfSources ==
    /\ bw_out' = << bandwidth_monitor_get_rate(monitor) >>
    /\ UNCHANGED <<monitor, bw_hist, cleanup_vars, cmd_vars, timer_vars, fsm_vars, probe_vars, cls_vars,
                   tray_vars, client_vars>>

NextCounters ==
    \/ Traffic
    \/ UpdateFromSources
    \/ GetRateOfSources

SpecCounters == InitCounters /\ [][NextCounters]_vars

SpecFsm == InitFsm /\ [][NextFsm]_vars

SpecProbe == InitProbe /\ [][NextProbe]_vars

SpecClassifier == InitClassifier /\ [][NextClassifier]_vars

SpecTray == InitTray /\ [][NextTray]_vars

SpecFetch == InitFetch /\ [][NextFetch]_vars

SpecMerge == InitMerge /\ [][NextMerge]_vars

SpecPoll == InitPoll /\ [][NextPoll]_vars

SpecStart == InitStart /\ [][NextStart]_vars

SpecCleanup == InitCleanup /\ [][NextCleanup]_vars

SpecCommand == InitCommand /\ [][NextCommand]_vars

SpecBandwidth == InitBandwidth /\ [][NextBandwidth]_vars

SpecSource == InitSource /\ [][NextSource]_vars

SpecItems == InitItems /\ [][NextItems]_vars

SpecSignal == InitSignal /\ [][NextSignal]_vars

(***************************************************************************)
(* Properties of the state machine.                                        *)
(***************************************************************************)
\* The events that report an observation of the session (FSM_EVENT_SESSION_*).
ObservedEvents == ConnectionFsmEvent \ {FSM_EVENT_CONNECT_REQUESTED, FSM_EVENT_DISCONNECT_REQUESTED}

NoTableEntry(s, e) ==
    \A i \in 1..Len(transition_table) :
        ~(transition_table[i].from_state = s /\ transition_table[i].event = e)

\* C1: an event processed in a state for which the transition table has no
\* (state, event) row leaves current_state as it was and returns that state.
C1_RejectedEventKeepsState ==
    \A k \in 1..Len(fsm_hist) :
        (fsm_hist[k].had_fsm /\ NoTableEntry(fsm_hist[k].old, fsm_hist[k].event))
            => /\ fsm_hist[k].new = fsm_hist[k].old
               /\ fsm_hist[k].ret = fsm_hist[k].old

\* An event without a row was processed in Connected (and in a state other
\* than the initial one).
C1_Witness ==
    \E k \in 1..Len(fsm_hist) :
        /\ fsm_hist[k].had_fsm
        /\ fsm_hist[k].old = CONN_STATE_CONNECTED
        /\ fsm_hist[k].event = FSM_EVENT_CONNECT_REQUESTED
        /\ NoTableEntry(fsm_hist[k].old, fsm_hist[k].event)
        /\ fsm.current_state = CONN_STATE_CONNECTED

\* The observed event that matches a state's own meaning.
OwnEvent(s) ==
    CASE s = CONN_STATE_DISCONNECTED -> FSM_EVENT_SESSION_DISCONNECTED
      [] s = CONN_STATE_CONNECTING -> FSM_EVENT_SESSION_CONNECTING
      [] s = CONN_STATE_CONNECTED -> FSM_EVENT_SESSION_CONNECTED
      [] s = CONN_STATE_PAUSED -> FSM_EVENT_SESSION_PAUSED
      [] s = CONN_STATE_AUTH_REQUIRED -> FSM_EVENT_SESSION_AUTH_REQUIRED
      [] s = CONN_STATE_ERROR -> FSM_EVENT_SESSION_ERROR
      [] s = CONN_STATE_RECONNECTING -> FSM_EVENT_SESSION_RECONNECTING

\* C2: in each of the 7 states the observed event matching the state's own
\* meaning has a row that maps back to the same state: processing it takes
\* the valid-transition branch (it is never rejected) and keeps the state.
C2_OwnEventIsSelfTransition ==
    \A k \in 1..Len(fsm_hist) :
        (fsm_hist[k].had_fsm /\ fsm_hist[k].event = OwnEvent(fsm_hist[k].old))
            => /\ fsm_hist[k].valid
               /\ fsm_hist[k].new = fsm_hist[k].old
               /\ fsm_hist[k].ret = fsm_hist[k].old

\* Reconnecting was re-observed while the FSM was in Reconnecting.
C2_Witness ==
    \E k \in 1..Len(fsm_hist) :
        /\ fsm_hist[k].had_fsm
        /\ fsm_hist[k].old = CONN_STATE_RECONNECTING
        /\ fsm_hist[k].event = FSM_EVENT_SESSION_RECONNECTING

\* C3: an observed event that has a row for the state it is processed in,
\* processed twice in a row, ends in the state the first processing reached.
C3_ObservedEventIdempotent ==
    (/\ Len(fsm_hist) = 2
     /\ fsm_hist[1].had_fsm
     /\ fsm_hist[1].event = fsm_hist[2].event
     /\ fsm_hist[1].event \in ObservedEvents
     /\ ~NoTableEntry(fsm_hist[1].old, fsm_hist[1].event))
        => /\ fsm_hist[2].old = fsm_hist[1].new
           /\ fsm_hist[2].new = fsm_hist[1].new
           /\ fsm_hist[2].ret = fsm_hist[1].ret

\* SESSION_RESUMED was processed twice starting from Paused: the first moved
\* the FSM to Connected, where the event has no row of its own.
C3_Witness ==
    /\ Len(fsm_hist) = 2
    /\ fsm_hist[1].had_fsm
    /\ fsm_hist[1].old = CONN_STATE_PAUSED
    /\ fsm_hist[1].event = FSM_EVENT_SESSION_RESUMED
    /\ fsm_hist[2].event = FSM_EVENT_SESSION_RESUMED
    /\ fsm_hist[1].new # fsm_hist[1].old

\* The actions a ConnectionButtonStates value enables.
EnabledActions(b) ==
    {a \in {"connect", "disconnect", "pause", "resume", "authenticate"} :
        \/ a = "connect" /\ b.connect_enabled
        \/ a = "disconnect" /\ b.disconnect_enabled
        \/ a = "pause" /\ b.pause_enabled
        \/ a = "resume" /\ b.resume_enabled
        \/ a = "authenticate" /\ b.auth_enabled}

\* The allowed-action set of each state, as the specification lists it.
AllowedActions(s) ==
    CASE s = CONN_STATE_DISCONNECTED -> {"connect"}
      [] s = CONN_STATE_CONNECTING -> {"disconnect"}
      [] s = CONN_STATE_RECONNECTING -> {"disconnect"}
      [] s = CONN_STATE_CONNECTED -> {"disconnect", "pause"}
      [] s = CONN_STATE_PAUSED -> {"resume", "disconnect"}
      [] s = CONN_STATE_AUTH_REQUIRED -> {"authenticate", "disconnect"}
      [] s = CONN_STATE_ERROR -> {"connect", "disconnect"}

\* C4: connection_fsm_get_button_states enables, in every FSM state, exactly
\* the allowed-action set of that state and nothing else.
C4_ButtonStatesAreAllowedActions ==
    \A k \in 1..Len(fsm_buttons) :
        fsm_buttons[k].had_fsm
            => EnabledActions(fsm_buttons[k].buttons) = AllowedActions(fsm_buttons[k].state)

\* The button states were read in Paused.
C4_Witness ==
    \E k \in 1..Len(fsm_buttons) :
        /\ fsm_buttons[k].had_fsm
        /\ fsm_buttons[k].state = CONN_STATE_PAUSED
        /\ fsm.current_state = CONN_STATE_PAUSED

(***************************************************************************)
(* Properties of the status classifier.                                    *)
(***************************************************************************)
\* The text pat occurs in the message m (a NULL message contains nothing).
Contains(m, pat) ==
    /\ ~m.isnull
    /\ \E i \in 1..Len(m.chars) : \E j \in i..Len(m.chars) : SubSeq(m.chars, i, j) = pat

\* A failure word occurs in the message (rule 4).
FailureWord(m) ==
    Contains(m, LIT_failed) \/ Contains(m, LIT_Failed) \/ Contains(m, LIT_Error)

\* One of rules 1 to 5 of the classifier matches the inputs of the
\* classification o.
SomeRuleMatches(o) ==
    \/ o.needs_auth
    \/ o.major = 4 \/ (o.major = 2 /\ o.minor \in {13, 14})
    \/ o.connected
    \/ FailureWord(o.status_message)
    \/ o.major = 2

\* The state of the first of rules 1 to 5, in priority order, that matches
\* (used where SomeRuleMatches holds, so that the last rule is rule 5).
FirstRule(o) ==
    IF o.needs_auth THEN SESSION_STATE_AUTH_REQUIRED
    ELSE IF o.major = 4 \/ (o.major = 2 /\ o.minor \in {13, 14}) THEN SESSION_STATE_PAUSED
    ELSE IF o.connected THEN SESSION_STATE_CONNECTED
    ELSE IF FailureWord(o.status_message) THEN SESSION_STATE_ERROR
    ELSE SESSION_STATE_CONNECTING

\* C5 as stated: a session with major = 2, minor = 14 and a valid
\* connected_to tuple is classified Paused, never Connected.
C5_PausedWithConnectedTo ==
    \A k \in 1..Len(cls_out) :
        (cls_out[k].returned /\ cls_out[k].major = 2 /\ cls_out[k].minor = 14
            /\ cls_out[k].connected)
            => cls_out[k].state = SESSION_STATE_PAUSED

\* C5 (amended): a session with major = 2, minor = 14 and a valid
\* connected_to tuple is never classified Connected, and it is classified
\* Paused unless the authentication probe reports a pending authentication
\* (it is then AuthRequired).
C5_PausedUnlessAuthPending ==
    \A k \in 1..Len(cls_out) :
        (cls_out[k].returned /\ cls_out[k].major = 2 /\ cls_out[k].minor = 14
            /\ cls_out[k].connected)
            => /\ cls_out[k].state # SESSION_STATE_CONNECTED
               /\ cls_out[k].state = IF cls_out[k].needs_auth
                                     THEN SESSION_STATE_AUTH_REQUIRED
                                     ELSE SESSION_STATE_PAUSED

\* A paused session (2, 14) with a valid connected_to tuple and no pending
\* authentication was classified.
C5_Witness ==
    \E k \in 1..Len(cls_out) :
        /\ cls_out[k].returned /\ cls_out[k].major = 2 /\ cls_out[k].minor = 14
        /\ cls_out[k].connected /\ ~cls_out[k].needs_auth
        /\ cls_env.connected_to.port > 0
        /\ cls_out[k].state = SESSION_STATE_PAUSED

\* C6: whenever one of rules 1 to 5 matches, the classifier's result is the
\* state of the first rule, in priority order, that matches.
C6_FirstMatchingRuleWins ==
    \A k \in 1..Len(cls_out) :
        (cls_out[k].returned /\ SomeRuleMatches(cls_out[k]))
            => cls_out[k].state = FirstRule(cls_out[k])

\* A session with a failure message, major = 2 and no earlier rule matching
\* was classified Error: rule 4 won over rule 5.
C6_Witness ==
    \E k \in 1..Len(cls_out) :
        /\ cls_out[k].returned /\ ~cls_out[k].needs_auth /\ ~cls_out[k].connected
        /\ cls_out[k].major = 2 /\ cls_out[k].minor = 7
        /\ Contains(cls_out[k].status_message, LIT_Failed)
        /\ cls_out[k].state = SESSION_STATE_ERROR

\* The free-text fallback with the two AuthRequired patterns of the
\* specification's list.
FallbackAsListed(m) ==
    IF Contains(m, LIT_authentication_required) \/ Contains(m, LIT_https)
    THEN SESSION_STATE_AUTH_REQUIRED
    ELSE IF Contains(m, LIT_Connecting) THEN SESSION_STATE_CONNECTING
    ELSE IF Contains(m, LIT_Reconnecting) THEN SESSION_STATE_RECONNECTING
    ELSE IF Contains(m, LIT_Paused) THEN SESSION_STATE_PAUSED
    ELSE SESSION_STATE_DISCONNECTED

\* The same with "Web authentication" among the AuthRequired patterns.
FallbackAmended(m) ==
    IF Contains(m, LIT_Web_authentication) THEN SESSION_STATE_AUTH_REQUIRED
    ELSE FallbackAsListed(m)

\* C7 as stated: when none of rules 1 to 5 matches the result is that of the
\* free-text fallback ("authentication required" or "https://", then
\* "Connecting", "Reconnecting", "Paused", else Disconnected), and when one
\* of them matches the fallback does not decide the result.
C7_FallbackAsListed ==
    \A k \in 1..Len(cls_out) :
        cls_out[k].returned
            => cls_out[k].state =
                   IF ~SomeRuleMatches(cls_out[k])
                   THEN FallbackAsListed(cls_out[k].status_message)
                   ELSE FirstRule(cls_out[k])

\* C7 (amended): the same, with a message containing "Web authentication"
\* giving AuthRequired as well.
C7_FallbackWithWebAuthentication ==
    \A k \in 1..Len(cls_out) :
        cls_out[k].returned
            => cls_out[k].state =
                   IF ~SomeRuleMatches(cls_out[k])
                   THEN FallbackAmended(cls_out[k].status_message)
                   ELSE FirstRule(cls_out[k])

\* No rule matched and the message, which holds "Reconnecting" and
\* "Paused", decided the result.
C7_Witness ==
    \E k \in 1..Len(cls_out) :
        /\ cls_out[k].returned
        /\ ~SomeRuleMatches(cls_out[k])
        /\ Contains(cls_out[k].status_message, LIT_Paused)
        /\ Contains(cls_out[k].status_message, LIT_Reconnecting)
        /\ cls_out[k].state = SESSION_STATE_RECONNECTING

(***************************************************************************)
(* Properties of the authentication probe.                                 *)
(***************************************************************************)
\* The description begins with the URL prefix the probe tests for.
BeginsWithHttp(d) ==
    /\ ~d.isnull
    /\ Len(d.chars) >= Len(LIT_http)
    /\ SubSeq(d.chars, 1, Len(LIT_http)) = LIT_http

\* All three calls succeed, the queue holds a web-authentication entry, the
\* id list of that entry is not empty and the description begins with the
\* URL prefix.
AuthPending(b) ==
    /\ b.bus_ok
    /\ b.type_group = "ok" /\ b.check = "ok" /\ b.fetch = "ok"
    /\ \E i \in 1..Len(b.queue) : b.queue[i].type = 1
    /\ Len(b.ids) > 0
    /\ BeginsWithHttp(b.description)

\* C8: session_get_auth_url returns 0 with a URL if and only if all three
\* calls succeed, the queue holds a web-authentication entry, its id list
\* is not empty and the description begins with the URL prefix; in every
\* other case it returns a negative value and leaves *auth_url NULL.
C8_ProbeResult ==
    \A k \in 1..Len(probe_out) :
        /\ probe_out[k].returned
        /\ IF AuthPending(probe_env)
           THEN probe_out[k].ret = 0 /\ probe_out[k].auth_url = probe_env.description
           ELSE probe_out[k].ret < 0 /\ probe_out[k].auth_url.isnull

IsPrefix(a, b) == Len(a) <= Len(b) /\ SubSeq(b, 1, Len(a)) = a

\* C9: the probe's calls are issued in the order UserInputQueueGetTypeGroup,
\* UserInputQueueCheck, UserInputQueueFetch, each at most once;
\* UserInputQueueCheck only after UserInputQueueGetTypeGroup succeeded and
\* returned a web-authentication entry (and for that entry),
\* UserInputQueueFetch only after UserInputQueueCheck succeeded and returned
\* an id (and for the first id); with an empty queue nothing follows the
\* first call.
C9_ProbeCallsShortCircuit ==
    \A k \in 1..Len(probe_out) :
        LET calls == probe_out[k].calls
            b == probe_env
        IN  /\ IsPrefix([i \in 1..Len(calls) |-> calls[i].method],
                        << "UserInputQueueGetTypeGroup", "UserInputQueueCheck",
                           "UserInputQueueFetch" >>)
            /\ Len(calls) >= 2
                 => /\ b.type_group = "ok"
                    /\ \E i \in 1..Len(b.queue) :
                          /\ b.queue[i].type = 1
                          /\ calls[2].type = 1
                          /\ calls[2].group = b.queue[i].group
                          /\ \A j \in 1..(i - 1) : b.queue[j].type # 1
            /\ Len(calls) >= 3
                 => /\ b.check = "ok"
                    /\ Len(b.ids) >= 1
                    /\ calls[3].id = b.ids[1]
                    /\ calls[3].type = calls[2].type /\ calls[3].group = calls[2].group
            /\ (b.bus_ok /\ b.type_group = "ok" /\ Len(b.queue) = 0) => Len(calls) = 1

\* All three calls were issued for a queue whose web-authentication entry is
\* not its first entry.
C9_Witness ==
    \E k \in 1..Len(probe_out) :
        /\ Len(probe_out[k].calls) = 3
        /\ Len(probe_env.queue) = 2
        /\ probe_env.queue[1].type # 1
        /\ probe_out[k].ret = 0

(***************************************************************************)
(* Properties of the reconciliation tick.                                  *)
(***************************************************************************)
\* C10: over the ticks in a row on which a session path is observed
\* AuthRequired, the poll path opens the browser for it at most once.
C10_AuthUrlSurfacedAtMostOnce ==
    \A p \in SessionPaths : auth_streak[p].opened <= 1

\* A session observed AuthRequired on MaxStreak ticks in a row, the browser
\* opened for it once, and the tick still running.
C10_Witness ==
    \E p \in SessionPaths :
        /\ auth_streak[p].ticks = MaxStreak
        /\ auth_streak[p].opened = 1
        /\ p \in auth_launched
        /\ tray_running

\* C11: a session path observed AuthRequired with the browser opened for
\* it, then in another state, then AuthRequired again has launch_auth_browser
\* called for it on the tick of its re-entry.
C11_ReentrySurfacesAgain ==
    \A p \in SessionPaths : auth_reentry[p] # "skipped"

\* The connection records the menu items hold.
Records(items) ==
    { [config_path |-> c, state |-> items[c].state, session_path |-> items[c].session_path]
      : c \in DOMAIN items }

\* C15: after a tick on which config_list or session_list fails, every
\* connection record held before the tick is still held, with the state and
\* the session path it had.
C15_FailedFetchKeepsRecords ==
    [][last_fetch' \in { "config_list", "session_list" } =>
           Records(connection_menu_items) \subseteq Records(connection_menu_items')]_vars

(***************************************************************************)
(* Properties of the list fetches.                                         *)
(***************************************************************************)
\* The failures that say the backend is not activated yet.
Transient(r) == r \in { -ENODATA, -53 }

\* k attempts with a wait after each but the last.
AttemptsWithSleeps(k) == [i \in 1..(2 * k - 1) |-> IF i % 2 = 1 THEN "call" ELSE "sleep"]

\* Attempt k is the first that is not a transient failure.
FirstDecisive(answers, k) == ~Transient(answers[k]) /\ \A i \in 1..(k - 1) : Transient(answers[i])

\* C12: config_list whose every attempt fails transiently makes exactly 6
\* attempts, sleeps after each of the first 5 and returns the failure of the
\* 6th; when attempt k <= 6 is the one that succeeds it makes exactly k.
C12_ConfigListAttempts ==
    \A i \in 1..Len(fetch_out) :
        fetch_out[i].fn = "config_list" =>
            /\ (\A k \in 1..6 : Transient(fetch_env.answers[k])) =>
                   /\ fetch_out[i].trace = AttemptsWithSleeps(6)
                   /\ fetch_out[i].r = fetch_env.answers[6]
            /\ \A k \in 1..6 :
                   (fetch_env.answers[k] >= 0 /\ FirstDecisive(fetch_env.answers, k)) =>
                       fetch_out[i].trace = AttemptsWithSleeps(k)

C12_Witness ==
    /\ fetch_out # <<>>
    /\ fetch_out[1].fn = "config_list"
    /\ \A k \in 1..6 : Transient(fetch_env.answers[k])
    /\ fetch_env.answers[AnswerCount] = 0
    /\ Len(SelectSeq(fetch_out[1].trace, LAMBDA e : e = "call")) = 6
    /\ fetch_out[1].r < 0

\* C13: an attempt of config_list that fails with an error outside the
\* transient class is the last one: no sleep and no attempt follows it, and
\* its error code is returned with no configurations.
C13_OtherErrorEndsFetch ==
    \A i \in 1..Len(fetch_out) :
        fetch_out[i].fn = "config_list" =>
            \A k \in 1..6 :
                (fetch_env.answers[k] < 0 /\ FirstDecisive(fetch_env.answers, k)) =>
                    /\ fetch_out[i].trace = AttemptsWithSleeps(k)
                    /\ fetch_out[i].r = fetch_env.answers[k]
                    /\ fetch_out[i].list = <<>>

C13_Witness ==
    /\ fetch_out # <<>>
    /\ fetch_out[1].fn = "config_list"
    /\ Transient(fetch_env.answers[1])
    /\ Transient(fetch_env.answers[2])
    /\ fetch_env.answers[3] = -EINVAL
    /\ fetch_env.answers[4] = 0
    /\ fetch_out[1].r = -EINVAL
    /\ Len(fetch_out[1].trace) = 5

\* C14: session_list makes the attempts and sleeps config_list makes on the
\* same answers of the bus, and returns what it returns.
C14_SessionListRetries ==
    \A i \in 1..Len(fetch_out) :
        fetch_out[i].fn = "session_list" =>
            /\ fetch_out[i].trace = config_list(fetch_env).trace
            /\ fetch_out[i].r = config_list(fetch_env).r

(***************************************************************************)
(* Properties of merge_connections_data.                                   *)
(***************************************************************************)
\* The sessions the merge had to match: none when session_list failed.
FetchedSessions == IF merge_env.ses.r < 0 THEN <<>> ELSE merge_env.ses.sessions

\* The index of the record of the array rs made for the configuration c.
RecordsOf(rs, c) == { k \in 1..Len(rs) : rs[k].config_path = c.config_path }

\* C16: the array merge_connections_data returns holds exactly one record
\* for each configuration fetched, under its config_path, and no other
\* record; a record carries no session path or one.
C16_OneRecordPerConfig ==
    \A n \in 1..Len(merge_out) :
        ~merge_out[n].isnull =>
            LET cs == merge_env.cfg.configs
                rs == merge_out[n].connections
            IN  /\ \A i \in 1..Len(cs) : Cardinality(RecordsOf(rs, cs[i])) = 1
                /\ \A k \in 1..Len(rs) : \E i \in 1..Len(cs) : k \in RecordsOf(rs, cs[i])
                /\ \A k \in 1..Len(rs) : rs[k].session_path \in SessionPaths \cup { NullPath }

C16_Witness ==
    /\ merge_out # <<>>
    /\ ~merge_out[1].isnull
    /\ Len(merge_env.cfg.configs) = MaxConfigs
    /\ Len(FetchedSessions) = MaxSessions
    /\ \E k \in 1..Len(merge_out[1].connections) :
           merge_out[1].connections[k].session_path = NullPath
    /\ \E k \in 1..Len(merge_out[1].connections) :
           merge_out[1].connections[k].session_path # NullPath

\* A profile name and a display name are equal: both were read and are the
\* same string.
NameEquals(a, b) == a # NullName /\ b # NullName /\ a = b

\* The classified state of a session and the state of a record are the same.
SameState(session_state_value, conn_state) ==
    << session_state_value, conn_state >> \in
        { << SESSION_STATE_DISCONNECTED, CONN_STATE_DISCONNECTED >>,
          << SESSION_STATE_CONNECTING, CONN_STATE_CONNECTING >>,
          << SESSION_STATE_CONNECTED, CONN_STATE_CONNECTED >>,
          << SESSION_STATE_RECONNECTING, CONN_STATE_RECONNECTING >>,
          << SESSION_STATE_PAUSED, CONN_STATE_PAUSED >>,
          << SESSION_STATE_ERROR, CONN_STATE_ERROR >>,
          << SESSION_STATE_AUTH_REQUIRED, CONN_STATE_AUTH_REQUIRED >> }

\* C17: the record of each configuration carries the session path and the
\* state of the first session in fetch order whose profile name equals the
\* configuration's name; with no such session it is Disconnected with a NULL
\* session path.
C17_FirstSessionOfNameMatched ==
    \A n \in 1..Len(merge_out) :
        ~merge_out[n].isnull =>
            \A i \in 1..Len(merge_env.cfg.configs) :
            \A k \in RecordsOf(merge_out[n].connections, merge_env.cfg.configs[i]) :
                LET rec == merge_out[n].connections[k]
                    named == { j \in 1..Len(FetchedSessions) :
                                 NameEquals(FetchedSessions[j].config_name,
                                            merge_env.cfg.configs[i].config_name) }
                IN  IF named = {}
                    THEN rec.state = CONN_STATE_DISCONNECTED /\ rec.session_path = NullPath
                    ELSE \E j \in named :
                             /\ \A other \in named : j <= other
                             /\ rec.session_path = FetchedSessions[j].session_path
                             /\ SameState(FetchedSessions[j].state, rec.state)

C17_Witness ==
    /\ merge_out # <<>>
    /\ ~merge_out[1].isnull
    /\ Len(merge_env.cfg.configs) = 2
    /\ merge_env.cfg.configs[1].config_name = "B"
    /\ merge_env.cfg.configs[2].config_name = "A"
    /\ Len(FetchedSessions) = 2
    /\ FetchedSessions[1].session_path = "s2"
    /\ FetchedSessions[1].config_name = "A"
    /\ FetchedSessions[1].state = SESSION_STATE_PAUSED
    /\ FetchedSessions[2].config_name = "A"
    /\ FetchedSessions[2].state = SESSION_STATE_CONNECTED
    /\ \E k \in 1..2 : /\ merge_out[1].connections[k].config_name = "A"
                       /\ merge_out[1].connections[k].session_path = "s2"
                       /\ merge_out[1].connections[k].state = CONN_STATE_PAUSED
    /\ \E k \in 1..2 : /\ merge_out[1].connections[k].config_name = "B"
                       /\ merge_out[1].connections[k].session_path = NullPath
                       /\ merge_out[1].connections[k].state = CONN_STATE_DISCONNECTED

\* The display name a is less than or equal to b.
DisplayNameLeq(a, b) ==
    \E i, j \in 1..Len(ConfigNames) : ConfigNames[i] = a /\ ConfigNames[j] = b /\ i <= j

\* C18: in the array merge_connections_data returns the display name of
\* each record is less than or equal to that of the record after it.
C18_SortedByDisplayName ==
    \A n \in 1..Len(merge_out) :
        \A k \in 1..(Len(merge_out[n].connections) - 1) :
            DisplayNameLeq(merge_out[n].connections[k].config_name,
                           merge_out[n].connections[k + 1].config_name)

C18_Witness ==
    /\ merge_out # <<>>
    /\ Len(merge_env.cfg.configs) = 2
    /\ merge_env.cfg.configs[1].config_name = "B"
    /\ merge_env.cfg.configs[2].config_name = "A"
    /\ Len(merge_out[1].connections) = 2
    /\ merge_out[1].connections[1].config_name = "A"
    /\ merge_out[1].connections[2].config_name = "B"

CallsOf(calls, method, path) ==
    { k \in 1..Len(calls) : calls[k].method = method /\ calls[k].path = path }

\* The sessions session_start finds for its configuration: those listed
\* with the configuration's name.
ExistingSessions(env) ==
    { x.session_path : x \in { x \in { listed_sessions(env)[i] : i \in 1..Len(listed_sessions(env)) } :
                                 /\ env.config_name # NullName
                                 /\ x.config_name = env.config_name } }

\* C20: session_start issues Disconnect for every session it finds for the
\* configuration before it issues NewTunnel, issues NewTunnel once, and
\* issues Connect, on the path NewTunnel returned, only after NewTunnel
\* returned a path.
C20_DisconnectBeforeNewTunnel ==
    \A n \in 1..Len(start_out) :
        LET calls == start_out[n].calls
            new == CallsOf(calls, "NewTunnel", NullPath)
        IN  /\ Cardinality(new) = 1
            /\ \A p \in ExistingSessions(start_env) :
                   /\ CallsOf(calls, "Disconnect", p) # {}
                   /\ \A k \in CallsOf(calls, "Disconnect", p) : \A t \in new : k < t
            /\ \A k \in 1..Len(calls) :
                   calls[k].method = "Connect" =>
                       /\ start_env.new_tunnel.r >= 0
                       /\ start_env.new_tunnel.has_path
                       /\ calls[k].path = NewSessionPath
                       /\ \A t \in new : t < k

C20_Witness ==
    /\ start_out # <<>>
    /\ ExistingSessions(start_env) = { "s1" }
    /\ Len(start_env.backend) = 2
    /\ start_out[1].calls = << StartCall("FetchAvailableSessions", NullPath),
                               StartCall("Disconnect", "s1"),
                               StartCall("NewTunnel", NullPath),
                               StartCall("Connect", NewSessionPath) >>
    /\ start_out[1].r = 0

\* The sessions of the backend that were started from the configuration
\* session_start is called for, by the name read for its config_path.
SessionsOfConfig(env) ==
    { env.backend[i].session_path :
        i \in { i \in 1..Len(env.backend) : /\ env.config_name # NullName
                                            /\ env.backend[i].config_name = env.config_name } }

\* C21: whenever session_start issues NewTunnel, no session started from
\* the same configuration is still live on the backend, whatever the
\* configuration lookup, the session listing and the Disconnect calls
\* returned.
C21_NoLiveSessionAtNewTunnel ==
    \A n \in 1..Len(start_out) :
        CallsOf(start_out[n].calls, "NewTunnel", NullPath) # {} =>
            SessionsOfConfig(start_env) \cap start_out[n].live = {}

(***************************************************************************)
(* Properties of session_cleanup_all.                                      *)
(***************************************************************************)
\* The sessions session_cleanup_all lists: none when session_list fails.
CleanupListed(env) == IF env.list_r < 0 THEN <<>> ELSE env.backend

\* C22: session_cleanup_all issues one Disconnect for every listed session,
\* in the order listed and whatever the earlier ones returned; total is the
\* number of listed sessions, cleaned the number of Disconnect calls that
\* succeeded, cleaned <= total, and the value returned is 0.
C22_CleanupCountsEveryDisconnect ==
    \A n \in 1..Len(cleanup_out) :
        LET o == cleanup_out[n]
            listed == CleanupListed(cleanup_env)
        IN  o.written =>
              /\ o.r = 0
              /\ o.calls = << StartCall("FetchAvailableSessions", NullPath) >>
                             \o [i \in 1..Len(listed) |-> StartCall("Disconnect", listed[i])]
              /\ o.total = Len(listed)
              /\ o.cleaned = Cardinality({ i \in 1..Len(listed) :
                                             cleanup_env.disconnect_r[listed[i]] >= 0 })
              /\ o.cleaned <= o.total

C22_Witness ==
    /\ cleanup_out # <<>>
    /\ cleanup_env.backend = << "s1", "s2", "s3" >>
    /\ cleanup_env.disconnect_r = [p \in CleanupPaths |-> IF p = "s2" THEN 0 ELSE -EIO]
    /\ cleanup_out[1].r = 0
    /\ cleanup_out[1].total = 3
    /\ cleanup_out[1].cleaned = 1
    /\ Len(cleanup_out[1].calls) = 4

(***************************************************************************)
(* Properties of the command handlers.                                     *)
(***************************************************************************)
\* A step is the run of a command handler whose bus call failed.
FailedCommandStep == /\ cmd_out' # cmd_out
                     /\ cmd_out'[1].r < 0

\* C23: a connect, disconnect, pause or resume command that the backend
\* rejects is reported, and its handler leaves the connection records with
\* their FSM states, the session-timing cache and the auth-dedup set as
\* they were.
C23_FailedCommandKeepsLocalState ==
    [][FailedCommandStep =>
          /\ cmd_out'[1].reported
          /\ UNCHANGED <<connection_menu_items, session_timings, auth_launched>>]_vars

C23_Witness ==
    /\ cmd_out # <<>>
    /\ cmd_out[1].command = "disconnect"
    /\ cmd_out[1].r < 0
    /\ cmd_out[1].reported
    /\ "c2" \in DOMAIN connection_menu_items
    /\ connection_menu_items["c2"].session_path = "s1"
    /\ connection_menu_items["c2"].fsm.current_state = CONN_STATE_CONNECTED
    /\ "s1" \in DOMAIN session_timings
    /\ session_timings["s1"] = 5

(***************************************************************************)
(* Properties of the bandwidth monitor.  Inserted is the sequence of the   *)
(* samples stored since the monitor was created or last reset, oldest      *)
(* first.                                                                  *)
(***************************************************************************)
Inserted == bw_hist.inserted

\* The k-th most recently stored sample.
Recent(k) == Inserted[Len(Inserted) - k + 1]

\* The number of samples a monitor of this capacity holds of those stored.
Retained == Min(Len(Inserted), monitor.buffer_size)

\* No reset was made since the first sample was stored.
NeverReset == bw_hist.total = Len(Inserted)

\* The outcome in bw_out is that of the call op.
LastCall(op) == bw_out # <<>> /\ bw_out[1].op = op

\* C24: with n samples stored on a monitor of capacity c and no reset, the
\* monitor holds min(n, c) samples, they are the min(n, c) stored last, and
\* the totals a successful get_rate reports are the latest sample less the
\* first sample ever stored.
C24_BufferKeepsMostRecent ==
    NeverReset =>
      /\ monitor.sample_count = Retained
      /\ \A k \in 1..Retained :
             monitor.samples[(monitor.write_index + monitor.buffer_size - k)
                                % monitor.buffer_size] = Recent(k)
      /\ (LastCall("get_rate") /\ bw_out[1].r = 0) =>
             /\ bw_out[1].rate.total_downloaded =
                    CounterDiff(Recent(1).bytes_in, Inserted[1].bytes_in)
             /\ bw_out[1].rate.total_uploaded =
                    CounterDiff(Recent(1).bytes_out, Inserted[1].bytes_out)

C24_Witness ==
    /\ NeverReset
    /\ monitor.buffer_size = 3
    /\ Len(Inserted) = 5
    /\ monitor.sample_count = 3
    /\ Inserted[1].bytes_in = 1
    /\ \A k \in 1..3 : Recent(k).bytes_in # 1
    /\ LastCall("get_rate")
    /\ bw_out[1].r = 0
    /\ bw_out[1].rate.total_downloaded = 2
    /\ bw_out[1].rate.total_uploaded = 2

\* C25 as stated: the baseline is the first sample ever stored, whatever
\* was called on the monitor since, reset included.
C25_BaselineIsFirstEver ==
    bw_hist.first # <<>> => /\ monitor.has_baseline
                            /\ monitor.baseline = bw_hist.first[1]

\* C25: the baseline is the first sample stored since the monitor was
\* created or last reset; update, get_rate, get_samples and
\* get_latest_sample leave it, reset clears it.
C25_BaselineIsFirstSinceReset ==
    IF Inserted = <<>>
    THEN ~monitor.has_baseline /\ monitor.baseline = ZeroSample
    ELSE monitor.has_baseline /\ monitor.baseline = Inserted[1]

C25_Witness ==
    /\ bw_hist.total = 5
    /\ Len(Inserted) = 3
    /\ monitor.buffer_size = 2
    /\ monitor.has_baseline
    /\ monitor.baseline = Inserted[1]
    /\ monitor.baseline # bw_hist.first[1]
    /\ monitor.baseline # Recent(1)
    /\ monitor.baseline # Recent(2)

\* The divisor get_rate uses for the two samples stored last.
Divisor == IF Recent(1).timestamp - Recent(2).timestamp <= 0 THEN 1
           ELSE Recent(1).timestamp - Recent(2).timestamp

\* C26: get_rate returns -EAGAIN with a zeroed rate exactly when fewer
\* than 2 samples are held; otherwise it returns 0 and the rates are those
\* of the sample stored last against the one stored before it.
C26_RateFromLastTwo ==
    LastCall("get_rate") =>
      IF Retained < 2
      THEN bw_out[1] = NotEnoughData
      ELSE /\ bw_out[1].r = 0
           /\ bw_out[1].rate.download_rate_bps =
                  [num |-> CounterDiff(Recent(1).bytes_in, Recent(2).bytes_in),
                   den |-> Divisor]
           /\ bw_out[1].rate.upload_rate_bps =
                  [num |-> CounterDiff(Recent(1).bytes_out, Recent(2).bytes_out),
                   den |-> Divisor]

C26_Witness ==
    /\ LastCall("get_rate")
    /\ monitor.buffer_size = 3
    /\ Len(Inserted) = 4
    /\ monitor.write_index = 1
    /\ bw_out[1].r = 0
    /\ Recent(1).timestamp = 3
    /\ Recent(2).timestamp = 1
    /\ monitor.samples[1] # Recent(2)
    /\ bw_out[1].rate.download_rate_bps = [num |-> 1, den |-> 2]
    /\ bw_out[1].rate.upload_rate_bps = [num |-> 5, den |-> 2]

\* C27: the divisor of get_rate is at least 1; when the sample stored last
\* has the timestamp of the one before it, or a smaller one, the divisor
\* is 1 and each rate is the counter difference.
C27_DivisorClamped ==
    (LastCall("get_rate") /\ bw_out[1].r = 0) =>
      /\ bw_out[1].rate.download_rate_bps.den >= 1
      /\ bw_out[1].rate.upload_rate_bps.den >= 1
      /\ Recent(1).timestamp <= Recent(2).timestamp =>
             /\ bw_out[1].rate.download_rate_bps =
                    [num |-> CounterDiff(Recent(1).bytes_in, Recent(2).bytes_in), den |-> 1]
             /\ bw_out[1].rate.upload_rate_bps =
                    [num |-> CounterDiff(Recent(1).bytes_out, Recent(2).bytes_out), den |-> 1]

C27_Witness ==
    /\ LastCall("get_rate")
    /\ bw_out[1].r = 0
    /\ Recent(1).timestamp = Recent(2).timestamp
    /\ Recent(1) # Recent(2)
    /\ bw_out[1].rate.download_rate_bps = [num |-> 2, den |-> 1]
    /\ bw_out[1].rate.upload_rate_bps = [num |-> 2, den |-> 1]

\* C28: get_samples(n) hands over min(n, held) samples, newest first:
\* element i, counted from 0, is the (i+1)-th most recently stored sample.
C28_SamplesNewestFirst ==
    LastCall("get_samples") =>
      /\ bw_out[1].r = 0
      /\ bw_out[1].count = Min(bw_out[1].max_samples, Retained)
      /\ Len(bw_out[1].samples) = bw_out[1].count
      /\ \A k \in 1..bw_out[1].count : bw_out[1].samples[k] = Recent(k)

C28_Witness ==
    /\ LastCall("get_samples")
    /\ monitor.buffer_size = 3
    /\ Len(Inserted) = 5
    /\ monitor.write_index = 2
    /\ bw_out[1].max_samples = 4
    /\ bw_out[1].count = 3
    /\ bw_out[1].samples = << Inserted[5], Inserted[4], Inserted[3] >>
    /\ Inserted[5] # Inserted[4]
    /\ Inserted[4] # Inserted[3]
    /\ Inserted[2] # Inserted[5]

\* The session statistics were read and the read failed.
PreferredFailed == bw_out[1].reads # <<>> /\ bw_out[1].reads[1] = "dbus" /\ bw_out[1].dbus_r < 0

\* In a single-source mode only that source is read, and its error is the
\* value returned.
SingleSourceOnly ==
    /\ monitor.source = STATS_SOURCE_DBUS =>
           /\ \A k \in 1..Len(bw_out[1].reads) : bw_out[1].reads[k] = "dbus"
           /\ PreferredFailed => bw_out[1].r = bw_out[1].dbus_r
    /\ monitor.source = STATS_SOURCE_SYSFS =>
           /\ \A k \in 1..Len(bw_out[1].reads) : bw_out[1].reads[k] = "sysfs"
           /\ (bw_out[1].reads # <<>> /\ bw_out[1].sysfs_r < 0) =>
                  bw_out[1].r = bw_out[1].sysfs_r

\* C29 as stated: in Auto mode the device counters are read only after a
\* read of the session statistics that failed.
C29_FallbackOnlyAfterPreferredError ==
    LastCall("update") =>
      /\ SingleSourceOnly
      /\ (/\ monitor.source = STATS_SOURCE_AUTO
          /\ \E k \in 1..Len(bw_out[1].reads) : bw_out[1].reads[k] = "sysfs")
            => PreferredFailed

\* C29: in Auto mode the device counters are read only when the session
\* statistics were read and the read failed, or when they could not be
\* read for want of a bus or of a session path; in a single-source mode
\* only that source is read and its error is returned.
C29_FallbackAfterErrorOrNoPreferred ==
    LastCall("update") =>
      /\ SingleSourceOnly
      /\ (/\ monitor.source = STATS_SOURCE_AUTO
          /\ \E k \in 1..Len(bw_out[1].reads) : bw_out[1].reads[k] = "sysfs")
            => \/ /\ bw_out[1].reads = << "dbus", "sysfs" >>
                  /\ bw_out[1].dbus_r < 0
               \/ /\ bw_out[1].reads = << "sysfs" >>
                  /\ ~(bw_out[1].bus /\ monitor.has_session_path)

C29_Witness ==
    /\ LastCall("update")
    /\ monitor.source = STATS_SOURCE_AUTO
    /\ bw_out[1].reads = << "dbus", "sysfs" >>
    /\ bw_out[1].dbus_r < 0
    /\ bw_out[1].r = 0
    /\ monitor.sample_count = 1

(***************************************************************************)
(* Properties of the display refresh.                                      *)
(***************************************************************************)
\* C30: the 1-second display refresh (tray_icon_update_timers) makes no
\* bus call.
C30_TimerTickMakesNoBusCall == timer_calls = <<>>

(***************************************************************************)
(* The start time of a monitor.                                            *)
(***************************************************************************)
\* C31: bandwidth_monitor_get_start_time returns 0 while the monitor holds
\* no samples (after creation and after a reset) and otherwise the timestamp
\* of the first sample stored since creation or the last reset, whatever the
\* capacity.
C31_StartTimeIsFirstSinceReset ==
    LastCall("get_start_time") =>
        bw_out[1].start_time = IF monitor.sample_count = 0 THEN 0
                               ELSE Inserted[1].timestamp

(***************************************************************************)
(* The items and their FSMs over the ticks.                                *)
(***************************************************************************)
\* The configuration paths of the records of the array m.
ConfigPaths(m) == { m.connections[i].config_path : i \in 1..Len(m.connections) }

\* The state the array m holds for the configuration c.
ClassifiedState(m, c) ==
    m.connections[CHOOSE i \in 1..Len(m.connections) : m.connections[i].config_path = c].state

\* The FSMs one call of connection_fsm_process_event, or none, leaves of f.
AfterAtMostOneEvent(f) ==
    { f } \cup { connection_fsm_process_event(f, event).fsm : event \in ConnectionFsmEvent }

\* A step of a tick that ran to its end.
CompletedTick == tray_running /\ tray_running'

\* C32: after every reconciliation tick there is exactly one FSM per
\* configuration of the tick's reconciled list and none for another
\* configuration; the FSM of a newly seen configuration is created in
\* Disconnected and sent at most its first event, and the FSM of a
\* configuration seen before is changed by process_event only.
C32_OneFsmPerListedConfig ==
    /\ [](merge_out # <<>> /\ tray_running =>
            /\ DOMAIN connection_menu_items = ConfigPaths(merge_out[1])
            /\ \A c \in DOMAIN connection_menu_items : connection_menu_items[c].fsm.exists)
    /\ [][CompletedTick =>
            \A c \in DOMAIN connection_menu_items' :
                connection_menu_items'[c].fsm \in
                    AfterAtMostOneEvent(IF c \in DOMAIN connection_menu_items
                                        THEN connection_menu_items[c].fsm
                                        ELSE connection_fsm_create)]_vars

C32_Witness ==
    /\ tray_running
    /\ Len(merge_out) = 2
    /\ ConfigPaths(merge_out[2]) = { "c1" }
    /\ ConfigPaths(merge_out[1]) = { "c2" }
    /\ DOMAIN connection_menu_items = { "c2" }
    /\ connection_menu_items["c2"].fsm.current_state = CONN_STATE_AUTH_REQUIRED

\* C33: after a tick the state tracked on each item equals the state of the
\* item's FSM, whatever state the item was created with.
C33_ItemStateIsFsmState ==
    tray_running =>
        \A c \in DOMAIN connection_menu_items :
            connection_menu_items[c].state = connection_menu_items[c].fsm.current_state

\* C34: a configuration classified in the same state X on two consecutive
\* ticks has its FSM in X after the second.
C34_FsmConvergesToObserved ==
    (Len(merge_out) = 2 /\ tray_running) =>
        \A c \in ConfigPaths(merge_out[1]) \cap ConfigPaths(merge_out[2]) :
            ClassifiedState(merge_out[1], c) = ClassifiedState(merge_out[2], c) =>
                connection_menu_items[c].fsm.current_state = ClassifiedState(merge_out[1], c)

(***************************************************************************)
(* The two tables of the FSM.                                              *)
(***************************************************************************)
\* C35: in every state of the FSM, connect enabled means CONNECT_REQUESTED
\* has a row, disconnect enabled means DISCONNECT_REQUESTED has a row that
\* leads to Disconnected, and SESSION_DISCONNECTED has a row that leads to
\* Disconnected.
C35_ButtonsAgreeWithTransitions ==
    fsm.exists =>
        /\ connection_fsm_get_button_states(fsm).connect_enabled =>
               connection_fsm_process_event(fsm, FSM_EVENT_CONNECT_REQUESTED).valid
        /\ connection_fsm_get_button_states(fsm).disconnect_enabled =>
               /\ connection_fsm_process_event(fsm, FSM_EVENT_DISCONNECT_REQUESTED).valid
               /\ connection_fsm_process_event(fsm, FSM_EVENT_DISCONNECT_REQUESTED).ret
                      = CONN_STATE_DISCONNECTED
        /\ connection_fsm_process_event(fsm, FSM_EVENT_SESSION_DISCONNECTED).valid
        /\ connection_fsm_process_event(fsm, FSM_EVENT_SESSION_DISCONNECTED).ret
               = CONN_STATE_DISCONNECTED
        /\ \A k \in 1..Len(fsm_hist) :
               (fsm_hist[k].had_fsm /\ fsm_hist[k].event = FSM_EVENT_SESSION_DISCONNECTED) =>
                   fsm_hist[k].valid /\ fsm_hist[k].new = CONN_STATE_DISCONNECTED

\* The connect of the retry was processed in Error, and the buttons read in
\* the state it led to.
C35_Witness ==
    /\ \E k \in 1..Len(fsm_hist) :
        /\ fsm_hist[k].had_fsm
        /\ fsm_hist[k].old = CONN_STATE_ERROR
        /\ fsm_hist[k].event = FSM_EVENT_CONNECT_REQUESTED
        /\ fsm_hist[k].new = CONN_STATE_CONNECTING
    /\ fsm_buttons # <<>>
    /\ fsm_buttons[1].buttons.disconnect_enabled

(***************************************************************************)
(* What a failed session_start leaves on the backend.                      *)
(***************************************************************************)
\* C38: when session_start returns an error the sessions live on the
\* backend are those that were live before the call.
C38_FailedStartLeavesBackend ==
    (start_out # <<>> /\ start_out[1].r < 0) =>
        start_out[1].live =
            { start_env.backend[i].session_path : i \in 1..Len(start_env.backend) }

(***************************************************************************)
(* The signal path and the poll path of the authentication URL.            *)
(***************************************************************************)
\* C36: while a session started through session_start waits for its
\* authentication, the browser is opened at most once in all by the signal
\* handler and the reconciliation ticks.
C36_UrlOpenedOnceAcrossPaths == auth_streak[NewSessionPath].opened <= 1

(***************************************************************************)
(* What the auth dedup set records.                                        *)
(***************************************************************************)
\* C37: a session found AuthRequired for which no URL was opened so far
\* (on the first tick of its run, or on every tick of it) is not in the auth
\* dedup set, so that the next tick asks for the URL again.
C37_MarkedOnlyWhenOpened ==
    tray_running =>
        \A p \in SessionPaths :
            (/\ auth_streak[p].ticks >= 1
             /\ auth_streak[p].opened = 0
             /\ auth_reentry[p] = "none") => p \notin auth_launched

(***************************************************************************)
(* What a call of bandwidth_monitor_update does to the series.             *)
(***************************************************************************)
\* The monitor after one sample was stored in mon: the element at the write
\* index is one of the samples the sources hand over, the other elements
\* are kept, the write index moved on by one and the count grew by one up
\* to the size of the buffer.
OneSampleStored(mon, after) ==
    /\ after.samples[mon.write_index] \in BandwidthSamples
    /\ \A k \in 0..(mon.buffer_size - 1) :
          k # mon.write_index => after.samples[k] = mon.samples[k]
    /\ after.write_index = (mon.write_index + 1) % mon.buffer_size
    /\ after.sample_count =
          IF mon.sample_count < mon.buffer_size THEN mon.sample_count + 1
          ELSE mon.buffer_size
    /\ after.buffer_size = mon.buffer_size

\* C39: a call of bandwidth_monitor_update that returns an error leaves
\* the stored samples, the sample count, the write index, the baseline and
\* the start time as they were; a call that returns success stores exactly
\* one sample.
C39_FailedUpdateLeavesSeries ==
    [][ (IF bw_out' = <<>> THEN FALSE ELSE bw_out'[1].op = "update") =>
          IF bw_out'[1].r < 0
          THEN /\ monitor'.samples = monitor.samples
               /\ monitor'.sample_count = monitor.sample_count
               /\ monitor'.write_index = monitor.write_index
               /\ monitor'.baseline = monitor.baseline
               /\ monitor'.has_baseline = monitor.has_baseline
               /\ monitor'.start_time = monitor.start_time
          ELSE OneSampleStored(monitor, monitor') ]_vars

\* A failed update of a monitor that holds samples: the session statistics
\* and the device counters were both read, and both reads failed.
C39_Witness ==
    /\ LastCall("update")
    /\ bw_out[1].r < 0
    /\ bw_out[1].reads = << "dbus", "sysfs" >>
    /\ monitor.sample_count >= 2
    /\ monitor.has_baseline

(***************************************************************************)
(* The counters of one series.                                             *)
(***************************************************************************)
\* C40: in the series of an Auto monitor fed by two sources that never
\* fall, the byte counters of successive stored samples do not decrease,
\* and the differences bandwidth_monitor_get_rate returns are those of the
\* counters without a wrap: latest minus previous for the rates, latest
\* minus baseline for the totals.
C40_CountersNeverDecrease ==
    /\ \A i \in 1..(Len(Inserted) - 1) :
          /\ Inserted[i].bytes_in <= Inserted[i + 1].bytes_in
          /\ Inserted[i].bytes_out <= Inserted[i + 1].bytes_out
    /\ (LastCall("get_rate") /\ bw_out[1].r = 0) =>
          LET latest == Inserted[Len(Inserted)]
              previous == Inserted[Len(Inserted) - 1]
          IN  /\ bw_out[1].rate.download_rate_bps.num = latest.bytes_in - previous.bytes_in
              /\ bw_out[1].rate.upload_rate_bps.num = latest.bytes_out - previous.bytes_out
              /\ bw_out[1].rate.total_downloaded = latest.bytes_in - Inserted[1].bytes_in
              /\ bw_out[1].rate.total_uploaded = latest.bytes_out - Inserted[1].bytes_out

====
